---- MODULE Spec2Model ----
(***************************************************************************)
(* Model of the AURA backend (services/backend/src/backend):                *)
(*   - the call-lifecycle coordinator of __init__.py (simulate_heatwave,    *)
(*     vapi_webhook, process_follow_up_call, reset_simulation) together     *)
(*     with the voice service of voice_alerts.py;                           *)
(*   - the Home State Agent of home_state_agent.py (StateValidator,         *)
(*     process_request and the per-device executors);                       *)
(*   - the orchestrator's call placing paths of agent_orchestrator.py.      *)
(***************************************************************************)
EXTENDS Integers, Sequences, FiniteSets, TLC

(***************************************************************************)
(* Values                                                                   *)
(***************************************************************************)
\* Python's None, also the value .get() yields for an absent JSON field.
None == "None"

\* Call ids are modelled as integers.  In simulate mode the voice service
\* returns f"sim_{int(time.time())}": the id is the wall-clock second.
SimId(t) == t

\* A call id the provider never issued to this process, the id read from a
\* payload without call.id, and an id that is a JSON list/object (unhashable).
UnknownId == 9999
NoneId == -1
UnhashableId == -2

\* Ids issued by the real provider are fresh: the n-th created call gets
\* ProviderBase + n.
ProviderBase == 1000
ProviderId(n) == ProviderBase + n

\* Phone numbers.  Registration stores strings (models.py); a webhook payload
\* may carry the number as a JSON string, as a JSON integer, or not at all.
Phone == "+15125550100"
Phones == {Phone}
IntNumber == "int:15125550100"
WebhookNumbers == {None, Phone, IntNumber}
IsString(v) == v \in Phones
\* Python truthiness of the values above (None is falsy, the others truthy).
Truthy(v) == v # None

(***************************************************************************)
(* Bounds of the model and program constants                                *)
(***************************************************************************)
\* The clock (seconds) stops at MaxTime; MaxWarnings warning calls are
\* requested, one more where the ids of different calls are to meet.
MaxTime == 31
MaxWarnings == 1
\* asyncio.sleep(15) in process_follow_up_call.
FollowUpDelay == 15

VARIABLES
    \* services/backend/src/backend/__init__.py and voice_alerts.py
    simulate_mode,          \* AURAVoiceService.simulate_mode (no VAPI_API_KEY)
    now,                    \* int(time.time()), in seconds
    registered_homeowners,  \* __init__.registered_homeowners, as the list of phone numbers
    warning_call_ids,       \* __init__.warning_call_ids
    resolution_call_ids,    \* __init__.resolution_call_ids
    pending_follow_ups,     \* __init__.pending_follow_ups: call_id -> record
    tasks,                  \* background process_follow_up_call coroutines
    heatwaves,              \* simulate_heatwave handlers suspended in send_warning_call
    provider_calls,         \* number of calls the real provider has created
    issued,                 \* history: every call id the voice service returned
    warning_budget,         \* the warning calls the environment may still request
    tracked,                \* history: call_id -> times it entered warning_call_ids
    queued,                 \* history: call_id -> follow-ups queued for it
    attempts,               \* history: call_id -> send_resolution_call invocations of its follow-up
    skipSeen,               \* history: tracked ids for which a skip-reason ended event arrived
    endedFor,               \* history: numbers carried by ended events of tracked warning calls
    resolutionLog,          \* history: resolution calls placed, [to, via]
    last,                   \* history: the webhook delivery made by the last step, if any
    \* services/backend/src/backend/agent_orchestrator.py
    orchestrator_homeowners, \* AgentOrchestrator.registered_homeowners, its keys
    threat_result,          \* history: the last analyze_threats call and what it gathered
    generation,             \* history: the last _generate_home_actions call
    pipeline_result,        \* history: what the last process_threat_to_action returned
    \* services/backend/src/backend/home_state_agent.py
    initial_state,          \* what HomeStateAgent._load_initial_state returns
    current_state,          \* HomeStateAgent.current_state
    state_history,          \* len(HomeStateAgent._state_history)
    home_result             \* history: how the last process_request ended

coordVars == <<simulate_mode, now, registered_homeowners, warning_call_ids,
               resolution_call_ids, pending_follow_ups, tasks, heatwaves,
               provider_calls, issued, warning_budget, tracked, queued,
               attempts, skipSeen, endedFor, resolutionLog, last>>
pipelineVars == <<threat_result, generation, pipeline_result>>
orchVars == <<orchestrator_homeowners, pipelineVars>>
homeVars == <<initial_state, current_state, state_history, home_result>>

vars == <<coordVars, orchVars, homeVars>>

\* Count lookup in a history function whose domain grows as ids appear.
Count(f, c) == IF c \in DOMAIN f THEN f[c] ELSE 0
Bump(f, c) == [x \in DOMAIN f \cup {c} |-> IF x = c THEN Count(f, c) + 1 ELSE f[x]]

NoDelivery == [kind |-> "none"]

(***************************************************************************)
(* vapi_webhook                                                             *)
(***************************************************************************)
StatusTokens == {"acknowledged", "skipped", "not_warning_call",
                 "already_queued", "processed", "error"}

\* ended_reason in ["voicemail", "customer-did-not-answer", "assistant-ended-call"]
SkipReasons == {"voicemail", "customer-did-not-answer", "assistant-ended-call"}
EndedReasons == SkipReasons \cup {None, "customer-ended-call"}

\* A request body.  message/call/customer say whether that JSON field is a
\* dict, is absent, or holds a non-dict value (null, a string, ...).
WellFormed(type, status, id, number, reason) ==
    [message |-> "dict", type |-> type, status |-> status, call |-> "dict",
     id |-> id, customer |-> "dict", number |-> number, endedReason |-> reason]

DeliverableIds == issued \cup {UnknownId}

\* The requests delivered to the handler.  For every deliverable id: an ended
\* event in either form, with the number as a string or as an integer, with a
\* skip reason, without a customer, and an intermediate status update.  For
\* one id: the other reasons, a customer without a number, another message
\* type, and the malformed bodies.
WebhookRequests ==
    {WellFormed("end-of-call-report", None, id, n, "customer-ended-call") :
        id \in DeliverableIds, n \in WebhookNumbers \ {None}}
    \cup {WellFormed("end-of-call-report", None, id, Phone, "voicemail") :
        id \in DeliverableIds}
    \cup {WellFormed("status-update", "ended", id, Phone, None) :
        id \in DeliverableIds}
    \cup {WellFormed("status-update", "in-progress", id, Phone, None) :
        id \in DeliverableIds}
    \cup {[WellFormed("end-of-call-report", None, id, Phone, "customer-ended-call")
              EXCEPT !.customer = "absent"] : id \in DeliverableIds}
    \cup {WellFormed("end-of-call-report", None, UnknownId, Phone, r) :
        r \in {"customer-did-not-answer", "assistant-ended-call"}}
    \cup {WellFormed("end-of-call-report", None, UnknownId, None, "customer-ended-call")}
    \cup {WellFormed("transcript", None, UnknownId, Phone, None)}
    \cup {[WellFormed("end-of-call-report", None, UnknownId, Phone, None)
              EXCEPT !.message = m] : m \in {"absent", "bad"}}
    \cup {[WellFormed("end-of-call-report", None, UnknownId, Phone, "customer-ended-call")
              EXCEPT !.call = c] : c \in {"absent", "bad"}}
    \cup {[WellFormed("end-of-call-report", None, UnknownId, Phone, "customer-ended-call")
              EXCEPT !.customer = "bad"]}
    \cup {WellFormed("end-of-call-report", None, id, Phone, "customer-ended-call") :
              id \in {NoneId, UnhashableId}}

\* message = request.get("message", {}); message.get("type")
message_type(req) == IF req.message = "absent" THEN None ELSE req.type
message_status(req) == IF req.message = "absent" THEN None ELSE req.status

is_call_ended(req) ==
    \/ (message_type(req) = "status-update" /\ message_status(req) = "ended")
    \/ message_type(req) = "end-of-call-report"

\* call_info = message.get("call", {}); call_info.get("id")
call_id_of(req) ==
    IF req.message = "absent" \/ req.call = "absent" THEN NoneId ELSE req.id
\* call_info.get("customer", {}).get("number")
customer_number_of(req) ==
    IF req.message = "absent" \/ req.call = "absent" \/ req.customer = "absent"
    THEN None ELSE req.number
ended_reason_of(req) == IF req.message = "absent" THEN None ELSE req.endedReason

\* Variants of the handler's guards, for comparison with the code: a handler
\* that takes every call id for a tracked warning call, and one that never
\* discards the id it has consumed.
AnyCallId(call_id) == TRUE
KeepWarning(call_id) == warning_call_ids

\* if call_id not in warning_call_ids
IsTrackedWarning(call_id) == call_id \in warning_call_ids

\* warning_call_ids.discard(call_id)
DiscardWarning(call_id) == warning_call_ids \ {call_id}

\* if call_id in pending_follow_ups
AlreadyQueued(call_id) == call_id \in DOMAIN pending_follow_ups

NewFollowUp(customer_number) ==
    [customer_number |-> customer_number, ended_at |-> now, processed |-> FALSE]

NewTask(call_id, customer_number) ==
    [call_id |-> call_id, customer_number |-> customer_number,
     wake |-> now + FollowUpDelay, pc |-> "sleeping"]

Outcome(status, w, p, t) ==
    [status |-> status, warning |-> w, pending |-> p, tasks |-> t]
Unchanged(status) ==
    Outcome(status, warning_call_ids, pending_follow_ups, tasks)

\* The body of the handler's try block; "raised" stands for an exception
\* leaving the block.
WebhookBody(req) ==
    IF req.message = "bad" THEN Unchanged("raised")       \* message.get: AttributeError
    ELSE IF ~is_call_ended(req) THEN Unchanged("acknowledged")
    ELSE IF req.call = "bad" THEN Unchanged("raised")     \* call_info.get: AttributeError
    ELSE IF req.call = "dict" /\ req.customer = "bad" THEN Unchanged("raised")
    ELSE LET call_id == call_id_of(req)
             customer_number == customer_number_of(req)
             ended_reason == ended_reason_of(req)
         IN IF ended_reason \in SkipReasons THEN Unchanged("skipped")
            ELSE IF call_id = UnhashableId THEN Unchanged("raised")  \* TypeError: unhashable
            ELSE IF ~IsTrackedWarning(call_id) THEN Unchanged("not_warning_call")
            ELSE IF call_id # NoneId /\ Truthy(customer_number)
                 THEN IF AlreadyQueued(call_id)
                      THEN Outcome("already_queued", DiscardWarning(call_id),
                                   pending_follow_ups, tasks)
                      ELSE Outcome("processed", DiscardWarning(call_id),
                                   [c \in DOMAIN pending_follow_ups \cup {call_id} |->
                                       IF c = call_id THEN NewFollowUp(customer_number)
                                       ELSE pending_follow_ups[c]],
                                   tasks \cup {NewTask(call_id, customer_number)})
                 ELSE Outcome("processed", DiscardWarning(call_id),
                              pending_follow_ups, tasks)

\* try: ... except Exception as e: return {"status": "error", ...}
\* Variant: the handler body without its try/except.
WebhookUnguarded(req) == WebhookBody(req)

\* try: ... except Exception as e: return {"status": "error", ...}
vapi_webhook(req) ==
    LET r == WebhookBody(req)
    IN IF r.status = "raised" THEN Unchanged("error") ELSE r


(***************************************************************************)
(* What a delivery was, judged on the request and the state it met          *)
(* (history only: the handler above never reads these).                     *)
(***************************************************************************)
\* The request is a definitive call-ended signal whose call id can be read.
IsEndedEvent(req) ==
    /\ req.message = "dict" /\ req.call = "dict" /\ req.customer # "bad"
    /\ req.id \notin {NoneId, UnhashableId}
    /\ \/ (req.type = "status-update" /\ req.status = "ended")
       \/ req.type = "end-of-call-report"

PayloadId(req) ==
    IF req.message = "dict" /\ req.call = "dict" THEN req.id ELSE NoneId
PayloadNumber(req) ==
    IF req.message = "dict" /\ req.call = "dict" /\ req.customer = "dict"
    THEN req.number ELSE None
HasSkipReason(req) == IsEndedEvent(req) /\ req.endedReason \in SkipReasons

\* The digest of a delivery kept in `last`: what the event was, what the
\* state knew of its call id, what the handler answered and did.
Delivery(req, r) ==
    [kind |-> "delivery",
     ended |-> IsEndedEvent(req),
     skip |-> HasSkipReason(req),
     status |-> r.status,
     wasTracked |-> PayloadId(req) \in warning_call_ids,
     wasResolution |-> PayloadId(req) \in resolution_call_ids,
     wasSkipped |-> PayloadId(req) \in skipSeen,
     wasQueued |-> Count(queued, PayloadId(req)) > 0,
     changed |-> \/ r.warning # warning_call_ids
                 \/ r.pending # pending_follow_ups
                 \/ r.tasks # tasks,
     \* the call id this delivery queued a follow-up for, NoneId if it did not
     queuedId |-> IF DOMAIN r.pending # DOMAIN pending_follow_ups \/ r.tasks # tasks
                  THEN PayloadId(req) ELSE NoneId,
     \* this is again the ended event, for the same call id and with no skip
     \* reason, by which the step before this one queued a follow-up
     again |-> /\ IsEndedEvent(req) /\ ~HasSkipReason(req)
               /\ last.kind = "delivery"
               /\ last.queuedId = PayloadId(req)]

(***************************************************************************)
(* Actions of the coordinator                                               *)
(***************************************************************************)
\* POST /register (register_homeowner): a phone number registers once.
RegisterHomeowner(p) ==
    /\ \A i \in 1..Len(registered_homeowners) : registered_homeowners[i] # p
    /\ registered_homeowners' = Append(registered_homeowners, p)
    /\ last' = NoDelivery
    /\ UNCHANGED <<simulate_mode, now, warning_call_ids, resolution_call_ids,
                   pending_follow_ups, tasks, heatwaves, provider_calls, issued,
                   warning_budget, tracked, queued, attempts, skipSeen,
                   endedFor, resolutionLog>>
    /\ UNCHANGED <<orchVars, homeVars>>

\* POST /simulation/reset (reset_simulation): clears the homeowners (and the
\* legacy home_status, which is not part of this model); the call tracking
\* sets and pending_follow_ups are not touched.
reset_simulation ==
    /\ registered_homeowners' = <<>>
    /\ last' = NoDelivery
    /\ UNCHANGED <<simulate_mode, now, warning_call_ids, resolution_call_ids,
                   pending_follow_ups, tasks, heatwaves, provider_calls, issued,
                   warning_budget, tracked, queued, attempts, skipSeen,
                   endedFor, resolutionLog>>
    /\ UNCHANGED <<orchVars, homeVars>>

\* if call_result.get("call_id"): warning_call_ids.add(...)
TrackWarning(id) ==
    /\ warning_call_ids' = IF id # NoneId THEN warning_call_ids \cup {id}
                           ELSE warning_call_ids
    /\ tracked' = IF id # NoneId /\ id \notin warning_call_ids
                  THEN Bump(tracked, id) ELSE tracked

\* POST /simulate-heatwave in simulate mode: send_warning_call returns at once
\* with id sim_<now> and the id is tracked.
simulate_heatwave ==
    /\ simulate_mode
    /\ Len(registered_homeowners) > 0
    /\ warning_budget > 0
    /\ warning_budget' = warning_budget - 1
    /\ issued' = issued \cup {SimId(now)}
    /\ TrackWarning(SimId(now))
    /\ last' = NoDelivery
    /\ UNCHANGED <<simulate_mode, now, registered_homeowners, resolution_call_ids,
                   pending_follow_ups, tasks, heatwaves, provider_calls, queued,
                   attempts, skipSeen, endedFor, resolutionLog>>
    /\ UNCHANGED <<orchVars, homeVars>>

\* POST /simulate-heatwave with a real provider: the handler is suspended in
\* the HTTP request of send_warning_call; the provider creates the call
\* (status 201, a fresh id) or refuses it (no call_id in the result).
simulate_heatwave_send(created) ==
    /\ ~simulate_mode
    /\ Len(registered_homeowners) > 0
    /\ warning_budget > 0
    /\ warning_budget' = warning_budget - 1
    /\ IF created
       THEN /\ provider_calls' = provider_calls + 1
            /\ issued' = issued \cup {ProviderId(provider_calls + 1)}
            /\ heatwaves' = heatwaves \cup {ProviderId(provider_calls + 1)}
       ELSE /\ heatwaves' = heatwaves \cup {NoneId}
            /\ UNCHANGED <<provider_calls, issued>>
    /\ last' = NoDelivery
    /\ UNCHANGED <<simulate_mode, now, registered_homeowners, warning_call_ids,
                   resolution_call_ids, pending_follow_ups, tasks, tracked, queued,
                   attempts, skipSeen, endedFor, resolutionLog>>
    /\ UNCHANGED <<orchVars, homeVars>>

\* ... and resumes with the call result.
simulate_heatwave_resume(id) ==
    /\ id \in heatwaves
    /\ heatwaves' = heatwaves \ {id}
    /\ TrackWarning(id)
    /\ last' = NoDelivery
    /\ UNCHANGED <<simulate_mode, now, registered_homeowners, resolution_call_ids,
                   pending_follow_ups, tasks, provider_calls, issued,
                   warning_budget, queued, attempts, skipSeen, endedFor,
                   resolutionLog>>
    /\ UNCHANGED <<orchVars, homeVars>>

\* POST /vapi-webhook: the handler has no suspension point, it runs as one step.
Webhook(req) ==
    LET r == vapi_webhook(req)
        d == Delivery(req, r)
    IN /\ warning_call_ids' = r.warning
       /\ pending_follow_ups' = r.pending
       /\ tasks' = r.tasks
       /\ last' = d
       /\ queued' = IF d.queuedId # NoneId THEN Bump(queued, d.queuedId) ELSE queued
       /\ skipSeen' = IF d.skip /\ d.wasTracked THEN skipSeen \cup {PayloadId(req)}
                      ELSE skipSeen
       /\ endedFor' = IF d.ended /\ d.wasTracked THEN endedFor \cup {PayloadNumber(req)}
                      ELSE endedFor
       /\ UNCHANGED <<simulate_mode, now, registered_homeowners,
                      resolution_call_ids, heatwaves, provider_calls, issued,
                      warning_budget, tracked, attempts, resolutionLog>>
       /\ UNCHANGED <<orchVars, homeVars>>

\* The clock.  The program reads it to name simulated calls (sim_<second>),
\* to stamp ended_at and to end the sleep of a follow-up; nothing else
\* depends on it.  So time moves on to the next second once the current
\* second has named a call, ...
NextSecond ==
    /\ now < MaxTime
    /\ SimId(now) \in issued
    /\ now' = now + 1
    /\ last' = NoDelivery
    /\ UNCHANGED <<simulate_mode, registered_homeowners, warning_call_ids,
                   resolution_call_ids, pending_follow_ups, tasks, heatwaves,
                   provider_calls, issued, warning_budget, tracked, queued,
                   attempts, skipSeen, endedFor, resolutionLog>>
    /\ UNCHANGED <<orchVars, homeVars>>

\* ... or to the moment the next sleeping follow-up is due.
Sleeping == {t \in tasks : t.pc = "sleeping" /\ t.wake > now}
SleepUntilDue ==
    /\ Sleeping # {}
    /\ \E t \in Sleeping :
          /\ \A u \in Sleeping : t.wake <= u.wake
          /\ t.wake <= MaxTime
          /\ now' = t.wake
    /\ last' = NoDelivery
    /\ UNCHANGED <<simulate_mode, registered_homeowners, warning_call_ids,
                   resolution_call_ids, pending_follow_ups, tasks, heatwaves,
                   provider_calls, issued, warning_budget, tracked, queued,
                   attempts, skipSeen, endedFor, resolutionLog>>
    /\ UNCHANGED <<orchVars, homeVars>>

(***************************************************************************)
(* process_follow_up_call and send_resolution_call                          *)
(***************************************************************************)
\* phone_number.startswith("+") is evaluated before the try block of
\* send_resolution_call: a number that is not a str raises AttributeError.
startswith_raises(phone_number) == ~IsString(phone_number)

\* Variant: a follow-up that always takes the early return.
NeverDue(t) == FALSE

\* the guards after the sleep: the record is still there and not processed
FollowUpDue(t) ==
    /\ t.call_id \in DOMAIN pending_follow_ups
    /\ ~pending_follow_ups[t.call_id].processed

\* Variant: a follow-up that leaves the record as it found it.
LeaveUnprocessed(call_id) == pending_follow_ups

\* pending_follow_ups[call_id]["processed"] = True
MarkProcessed(call_id) ==
    [pending_follow_ups EXCEPT ![call_id].processed = TRUE]

\* del pending_follow_ups[call_id]
DeleteFollowUp(pending, call_id) ==
    [c \in DOMAIN pending \ {call_id} |-> pending[c]]

ResolutionPlaced(t) ==
    resolutionLog \cup {[to |-> t.customer_number, via |-> "process_follow_up_call"]}

\* The sleep is over and the coroutine runs up to its next suspension point.
\* In simulate mode send_resolution_call returns without suspending, so the
\* whole rest of the function is one step.
process_follow_up_call(t) ==
    /\ t \in tasks /\ t.pc = "sleeping" /\ now >= t.wake
    /\ last' = NoDelivery
    /\ IF ~FollowUpDue(t)
       THEN \* early return
            /\ tasks' = tasks \ {t}
            /\ UNCHANGED <<pending_follow_ups, resolution_call_ids, attempts,
                           issued, resolutionLog>>
       ELSE /\ attempts' = Bump(attempts, t.call_id)
            /\ IF startswith_raises(t.customer_number)
               THEN \* except Exception: print(...); the del is skipped
                    /\ pending_follow_ups' = MarkProcessed(t.call_id)
                    /\ tasks' = tasks \ {t}
                    /\ UNCHANGED <<resolution_call_ids, issued, resolutionLog>>
               ELSE IF simulate_mode
               THEN /\ resolution_call_ids' = resolution_call_ids \cup {SimId(now)}
                    /\ issued' = issued \cup {SimId(now)}
                    /\ resolutionLog' = ResolutionPlaced(t)
                    /\ pending_follow_ups' =
                           DeleteFollowUp(MarkProcessed(t.call_id), t.call_id)
                    /\ tasks' = tasks \ {t}
               ELSE \* suspended in the HTTP request to the provider
                    /\ pending_follow_ups' = MarkProcessed(t.call_id)
                    /\ tasks' = (tasks \ {t}) \cup {[t EXCEPT !.pc = "calling"]}
                    /\ UNCHANGED <<resolution_call_ids, issued, resolutionLog>>
    /\ UNCHANGED <<simulate_mode, now, registered_homeowners, warning_call_ids,
                   heatwaves, provider_calls, warning_budget, tracked, queued,
                   skipSeen, endedFor>>
    /\ UNCHANGED <<orchVars, homeVars>>

\* The provider answers: the call was created (201, a fresh id), or it was
\* not (another status, or an exception caught inside send_resolution_call).
\* Either way the coroutine goes on to delete the record.
send_resolution_call_returns(t, created) ==
    /\ t \in tasks /\ t.pc = "calling"
    /\ last' = NoDelivery
    /\ tasks' = tasks \ {t}
    /\ IF created
       THEN /\ provider_calls' = provider_calls + 1
            /\ issued' = issued \cup {ProviderId(provider_calls + 1)}
            /\ resolution_call_ids' =
                   resolution_call_ids \cup {ProviderId(provider_calls + 1)}
            /\ resolutionLog' = ResolutionPlaced(t)
       ELSE UNCHANGED <<provider_calls, issued, resolution_call_ids, resolutionLog>>
    /\ pending_follow_ups' = IF t.call_id \in DOMAIN pending_follow_ups
                             THEN DeleteFollowUp(pending_follow_ups, t.call_id)
                             ELSE pending_follow_ups
    /\ UNCHANGED <<simulate_mode, now, registered_homeowners, warning_call_ids,
                   heatwaves, warning_budget, tracked, queued, attempts,
                   skipSeen, endedFor>>
    /\ UNCHANGED <<orchVars, homeVars>>

(***************************************************************************)
(* The orchestrator's own call placing (agent_orchestrator.py with          *)
(* agentverse_voice_service.py)                                             *)
(***************************************************************************)
\* AgentOrchestrator.register_homeowner: a phone number registers once.
orchestrator_register_homeowner(p) ==
    /\ p \notin orchestrator_homeowners
    /\ orchestrator_homeowners' = orchestrator_homeowners \cup {p}
    /\ last' = NoDelivery
    /\ UNCHANGED <<simulate_mode, now, registered_homeowners, warning_call_ids,
                   resolution_call_ids, pending_follow_ups, tasks, heatwaves,
                   provider_calls, issued, warning_budget, tracked, queued,
                   attempts, skipSeen, endedFor, resolutionLog>>
    /\ UNCHANGED <<pipelineVars, homeVars>>

\* AgentOrchestrator.send_completion_calls: a resolution call to every
\* registered homeowner, straight from the caller's control flow.  The
\* agentverse voice service is synchronous; simulated calls always succeed,
\* a real provider creates each call or refuses it.
send_completion_calls ==
    /\ orchestrator_homeowners # {}
    /\ \E placed \in SUBSET orchestrator_homeowners :
          /\ simulate_mode => placed = orchestrator_homeowners
          /\ resolutionLog' = resolutionLog \cup
                 {[to |-> p, via |-> "send_completion_calls"] : p \in placed}
    /\ last' = NoDelivery
    /\ UNCHANGED <<simulate_mode, now, registered_homeowners, warning_call_ids,
                   resolution_call_ids, pending_follow_ups, tasks, heatwaves,
                   provider_calls, issued, warning_budget, tracked, queued,
                   attempts, skipSeen, endedFor>>
    /\ UNCHANGED <<orchVars, homeVars>>

(***************************************************************************)
(* The Home State Agent (home_state_agent.py, home_state_models.py)         *)
(***************************************************************************)
\* Python floats: a finite number or nan.  Every ordered comparison with nan
\* is false, and arithmetic on nan gives nan.
Float(n) == [nan |-> FALSE, v |-> n]
NaN == [nan |-> TRUE, v |-> 0]
Lt(a, b) == ~a.nan /\ ~b.nan /\ a.v < b.v
Gt(a, b) == ~a.nan /\ ~b.nan /\ a.v > b.v
Add(a, b) == IF a.nan \/ b.nan THEN NaN ELSE Float(a.v + b.v)

\* A variant of the product that disregards the rate.
AmountOnly(a, b) == a

Mul(a, b) == IF a.nan \/ b.nan THEN NaN ELSE Float(a.v * b.v)

\* Values of action parameters as they arrive (Dict[str, Any]): a JSON
\* number, the nan Python's json module accepts, or a JSON string.
\* Enumeration parameters (mode, connection_status) are written as bare
\* strings.  Money is counted in cents, so a rate of 0.83 is 83.
JNum(n) == [json |-> "number", v |-> n, s |-> ""]
JNaN == [json |-> "nan", v |-> 0, s |-> ""]
JStr(str) == [json |-> "string", v |-> 0, s |-> str]

\* float(x): a number converts to itself; a string is parsed, "nan" parses to
\* nan and a string that is no numeral raises ValueError.
Numerals == {<<"72", 72>>, <<"95", 95>>}
float(x) ==
    IF x.json = "number" THEN [ok |-> TRUE, val |-> Float(x.v)]
    ELSE IF x.json = "nan" THEN [ok |-> TRUE, val |-> NaN]
    ELSE IF \E n \in Numerals : n[1] = x.s
         THEN [ok |-> TRUE, val |-> Float((CHOOSE n \in Numerals : n[1] = x.s)[2])]
    ELSE IF x.s = "nan" THEN [ok |-> TRUE, val |-> NaN]
    ELSE [ok |-> FALSE, val |-> NaN]

\* StateValidator's constants
MIN_TEMPERATURE_F == 60
MAX_TEMPERATURE_F == 90
MIN_BATTERY_SOC == 0
MAX_BATTERY_SOC == 100
MIN_BACKUP_RESERVE == 0
MAX_BACKUP_RESERVE == 100
MIN_SOLAR_PRODUCTION == 0
MAX_SOLAR_PRODUCTION == 50
ThermostatModes == {"heat", "cool", "auto", "off"}
FanModes == {"auto", "on", "circulate"}
ConnectionStatuses == {"connected", "disconnected", "maintenance"}

\* Python dicts with string keys
EmptyDict == [k \in {} |-> None]
Has(d, k) == k \in DOMAIN d
\* d.update(e)
Update(d, e) == [k \in DOMAIN d \cup DOMAIN e |-> IF k \in DOMAIN e THEN e[k] ELSE d[k]]
Item(k, v) == [x \in {k} |-> v]

\* The outcome of a validator or of an executor: the value it returns, or
\* the exception it raises.
Raise(e) == [error |-> e, value |-> EmptyDict]
Return(v) == [error |-> None, value |-> v]
OutOfRange(x, lo, hi) == Lt(x, Float(lo)) \/ Gt(x, Float(hi))

validate_thermostat_properties(properties) ==
    LET temp == float(properties["temperature_f"])
        v1 == IF Has(properties, "temperature_f")
              THEN Update(Item("temperature_f", temp.val),
                          Item("target_temperature_f", temp.val))
              ELSE EmptyDict
        v2 == IF Has(properties, "mode")
              THEN Update(v1, Item("mode", properties["mode"])) ELSE v1
        v3 == IF Has(properties, "fan_mode")
              THEN Update(v2, Item("fan_mode", properties["fan_mode"])) ELSE v2
    IN IF Has(properties, "temperature_f") /\ ~temp.ok THEN Raise("ValueError")
       ELSE IF Has(properties, "temperature_f")
               /\ (Lt(temp.val, Float(MIN_TEMPERATURE_F))
                   \/ Gt(temp.val, Float(MAX_TEMPERATURE_F)))
            THEN Raise("HomeStateValidationError")
       ELSE IF Has(properties, "mode") /\ properties["mode"] \notin ThermostatModes
            THEN Raise("HomeStateValidationError")
       ELSE IF Has(properties, "fan_mode") /\ properties["fan_mode"] \notin FanModes
            THEN Raise("HomeStateValidationError")
       ELSE Return(v3)

validate_battery_properties(properties) ==
    LET soc == float(properties["soc_percent"])
        reserve == float(properties["backup_reserve_percent"])
        v1 == IF Has(properties, "soc_percent")
              THEN Item("soc_percent", soc.val) ELSE EmptyDict
        v2 == IF Has(properties, "backup_reserve_percent")
              THEN Update(v1, Item("backup_reserve_percent", reserve.val)) ELSE v1
        \* bool(properties["grid_charging"]), of a value that is a bool
        v3 == IF Has(properties, "grid_charging")
              THEN Update(v2, Item("grid_charging", properties["grid_charging"] = TRUE))
              ELSE v2
    IN IF Has(properties, "soc_percent") /\ ~soc.ok THEN Raise("ValueError")
       ELSE IF Has(properties, "soc_percent")
               /\ OutOfRange(soc.val, MIN_BATTERY_SOC, MAX_BATTERY_SOC)
            THEN Raise("HomeStateValidationError")
       ELSE IF Has(properties, "backup_reserve_percent") /\ ~reserve.ok
            THEN Raise("ValueError")
       ELSE IF Has(properties, "backup_reserve_percent")
               /\ OutOfRange(reserve.val, MIN_BACKUP_RESERVE, MAX_BACKUP_RESERVE)
            THEN Raise("HomeStateValidationError")
       ELSE Return(v3)

validate_solar_properties(properties) ==
    LET production == float(properties["current_production_kw"])
        efficiency == float(properties["efficiency_percent"])
        v1 == IF Has(properties, "current_production_kw")
              THEN Item("current_production_kw", production.val) ELSE EmptyDict
        v2 == IF Has(properties, "efficiency_percent")
              THEN Update(v1, Item("efficiency_percent", efficiency.val)) ELSE v1
    IN IF Has(properties, "current_production_kw") /\ ~production.ok
       THEN Raise("ValueError")
       ELSE IF Has(properties, "current_production_kw")
               /\ OutOfRange(production.val, MIN_SOLAR_PRODUCTION, MAX_SOLAR_PRODUCTION)
            THEN Raise("HomeStateValidationError")
       ELSE IF Has(properties, "efficiency_percent") /\ ~efficiency.ok
            THEN Raise("ValueError")
       ELSE IF Has(properties, "efficiency_percent")
               /\ (Lt(efficiency.val, Float(0)) \/ Gt(efficiency.val, Float(100)))
            THEN Raise("HomeStateValidationError")
       ELSE Return(v2)

validate_grid_properties(properties) ==
    LET energy == float(properties["sell_energy_kwh"])
        rate == float(properties["rate_usd_per_kwh"])
        v1 == IF Has(properties, "connection_status")
              THEN Item("connection_status", properties["connection_status"])
              ELSE EmptyDict
        v2 == IF Has(properties, "sell_energy_kwh")
              THEN Update(v1, Item("sell_energy_kwh", energy.val)) ELSE v1
        v3 == IF Has(properties, "rate_usd_per_kwh")
              THEN Update(v2, Item("rate_usd_per_kwh", rate.val)) ELSE v2
    IN IF Has(properties, "connection_status")
          /\ properties["connection_status"] \notin ConnectionStatuses
       THEN Raise("HomeStateValidationError")
       ELSE IF Has(properties, "sell_energy_kwh") /\ ~energy.ok THEN Raise("ValueError")
       ELSE IF Has(properties, "sell_energy_kwh") /\ Lt(energy.val, Float(0))
            THEN Raise("HomeStateValidationError")
       ELSE IF Has(properties, "rate_usd_per_kwh") /\ ~rate.ok THEN Raise("ValueError")
       ELSE IF Has(properties, "rate_usd_per_kwh") /\ Lt(rate.val, Float(0))
            THEN Raise("HomeStateValidationError")
       ELSE Return(v3)

\* HomeState: the devices that exist with their properties, the financials,
\* and the last_updated stamps written since the state was loaded: the keys
\* of the devices stamped, and "home" for the stamp of the state itself
\* (metadata is left out).
HomeState(devices, profit, sold) ==
    [devices |-> devices,
     financials |-> [profit_today_usd |-> profit, total_energy_sold_kwh |-> sold],
     last_updated |-> {}]

\* The fallback of _load_initial_state: no devices, zero financials.
DefaultState == HomeState(EmptyDict, Float(0), Float(0))

\* A home provisioned within its bounds, as initial_home_state.json holds one.
ProvisionedState ==
    HomeState(
        [d \in {"thermostat", "battery", "solar", "grid"} |->
            CASE d = "thermostat" ->
                     [k \in {"temperature_f", "target_temperature_f", "mode", "fan_mode"} |->
                         CASE k = "mode" -> "cool" [] k = "fan_mode" -> "auto"
                           [] OTHER -> Float(72)]
              [] d = "battery" ->
                     [k \in {"soc_percent", "backup_reserve_percent"} |->
                         IF k = "soc_percent" THEN Float(80) ELSE Float(20)]
              [] d = "solar" ->
                     [k \in {"current_production_kw", "efficiency_percent"} |->
                         IF k = "current_production_kw" THEN Float(5) ELSE Float(90)]
              [] OTHER -> Item("connection_status", "connected")],
        Float(0), Float(0))

\* HomeState.get_device / HomeState.update_device
get_device(state, device_type) ==
    IF Has(state.devices, device_type) THEN state.devices[device_type] ELSE None
update_device(state, device_type, properties) ==
    [state EXCEPT !.devices =
        Update(state.devices,
               Item(device_type,
                    IF Has(state.devices, device_type)
                    THEN Update(state.devices[device_type], properties)
                    ELSE properties)),
                  !.last_updated = @ \cup {device_type, "home"}]

\* An action of a request.  target_value is None or a float.
Action(device_type, action_type, parameters, target_value) ==
    [device_type |-> device_type, action_type |-> action_type,
     parameters |-> parameters, target_value |-> target_value]
NoTarget == [none |-> TRUE]
AsJson(f) == IF f.nan THEN JNaN ELSE JNum(f.v)

\* Each executor gives the state it leaves and the exception it raised, if any.
Done(state) == [error |-> None, state |-> state]
Failed(e, state) == [error |-> e, state |-> state]

\* Variant: update_device with what was validated before the failure is
\* looked at.
UpdateThenValidate(state, device_type, validation) ==
    IF validation.error # None
    THEN Failed(validation.error, update_device(state, device_type, validation.value))
    ELSE Done(update_device(state, device_type, validation.value))

\* validate, then update_device
ValidatedUpdate(state, device_type, validation) ==
    IF validation.error # None THEN Failed(validation.error, state)
    ELSE Done(update_device(state, device_type, validation.value))

_execute_thermostat_action(state, action) ==
    LET p == action.parameters
        set1 == IF Has(p, "temperature")
                THEN Update(Item("target_temperature_f", p["temperature"]),
                            Item("temperature_f", p["temperature"]))
                ELSE EmptyDict
        set2 == IF Has(p, "mode") THEN Update(set1, Item("mode", p["mode"])) ELSE set1
        adjust == Update(Item("target_temperature_f", AsJson(action.target_value)),
                         Item("temperature_f", AsJson(action.target_value)))
    IN IF action.action_type = "set"
       THEN IF set2 = EmptyDict THEN Done(state)
            ELSE ValidatedUpdate(state, "thermostat", validate_thermostat_properties(set2))
       ELSE IF action.action_type = "adjust" /\ action.target_value # NoTarget
       THEN \* get_device(THERMOSTAT).properties, of a home without a thermostat
            IF ~Has(state.devices, "thermostat") THEN Failed("AttributeError", state)
            ELSE ValidatedUpdate(state, "thermostat", validate_thermostat_properties(adjust))
       ELSE Done(state)

_execute_battery_action(state, action) ==
    LET p == action.parameters
        set1 == IF Has(p, "soc_percent")
                THEN Item("soc_percent", p["soc_percent"]) ELSE EmptyDict
        set2 == IF Has(p, "backup_reserve")
                THEN Update(set1, Item("backup_reserve_percent", p["backup_reserve"]))
                ELSE set1
    IN IF action.action_type = "set"
       THEN IF set2 = EmptyDict THEN Done(state)
            ELSE ValidatedUpdate(state, "battery", validate_battery_properties(set2))
       ELSE IF action.action_type = "adjust" /\ action.target_value # NoTarget
       THEN ValidatedUpdate(state, "battery",
                validate_battery_properties(
                    Item("soc_percent", AsJson(action.target_value))))
       ELSE Done(state)

_execute_solar_action(state, action) ==
    LET p == action.parameters
    IN IF action.action_type = "set" /\ Has(p, "production_kw")
       THEN ValidatedUpdate(state, "solar",
                validate_solar_properties(
                    Item("current_production_kw", p["production_kw"])))
       ELSE Done(state)

\* rate = action.parameters.get("rate_usd_per_kwh", 0.83), in cents
DefaultRate == 83

_execute_grid_action(state, action) ==
    LET p == action.parameters
        set1 == IF Has(p, "connection_status")
                THEN Item("connection_status", p["connection_status"]) ELSE EmptyDict
        set2 == IF Has(p, "sell_energy")
                THEN Update(set1,
                         Update(Item("sell_energy_kwh", p["sell_energy"]),
                                Item("rate_usd_per_kwh",
                                     IF Has(p, "rate_usd_per_kwh")
                                     THEN p["rate_usd_per_kwh"] ELSE JNum(DefaultRate))))
                ELSE set1
        validation == validate_grid_properties(set2)
        v == validation.value
        sale == Has(v, "sell_energy_kwh") /\ Has(v, "rate_usd_per_kwh")
        profit == Mul(v["sell_energy_kwh"], v["rate_usd_per_kwh"])
        credited ==
            [state EXCEPT
                !.financials.profit_today_usd = Add(@, profit),
                !.financials.total_energy_sold_kwh = Add(@, v["sell_energy_kwh"])]
    IN IF action.action_type # "set" \/ set2 = EmptyDict THEN Done(state)
       ELSE IF validation.error # None THEN Failed(validation.error, state)
       ELSE IF sale
       THEN Done(update_device(credited, "grid",
                   Update(v, Item("last_sale",
                                  [sold |-> v["sell_energy_kwh"], for |-> profit]))))
       ELSE Done(update_device(state, "grid", v))

\* _execute_action: dispatch on the device type; the ActionResult it returns
\* always has success=True, a failure leaves it as an exception.
_execute_action(state, action) ==
    LET ActionResult(r) == [error |-> r.error, state |-> r.state, success |-> TRUE]
    IN ActionResult(
           CASE action.device_type = "thermostat" -> _execute_thermostat_action(state, action)
             [] action.device_type = "battery" -> _execute_battery_action(state, action)
             [] action.device_type = "solar" -> _execute_solar_action(state, action)
             [] action.device_type = "grid" -> _execute_grid_action(state, action)
             [] OTHER -> Failed("DeviceOperationError", state))

\* The loop of process_request from action i on.  It gives the state left,
\* how the call ended (a HomeStateResult returned, or an exception raised),
\* and the number of actions executed without an exception.
RECURSIVE RunActions(_, _, _)
RunActions(state, actions, i) ==
    IF i > Len(actions)
    THEN [state |-> state, kind |-> "returned", success |-> TRUE, error |-> None,
          failed_at |-> 0, executed |-> Len(actions)]
    ELSE LET After(result) ==
                 IF result.error # None
                 THEN [state |-> result.state, kind |-> "raised", success |-> FALSE,
                       error |-> result.error, failed_at |-> i, executed |-> i - 1]
                 ELSE IF ~result.success
                 THEN [state |-> result.state, kind |-> "returned", success |-> FALSE,
                       error |-> None, failed_at |-> i, executed |-> i]
                 ELSE RunActions(result.state, actions, i + 1)
         IN After(_execute_action(state, actions[i]))

\* _save_state_snapshot with _manage_memory, on the length of the history
MaxStateHistory == 1000
ManagedLength(n) ==
    IF n * 10 >= MaxStateHistory * 8 THEN n - (MaxStateHistory * 2) \div 10 ELSE n
SnapshotSaved(n) == ManagedLength(n + 1)

\* Bounds of the home model: the longest request, the snapshots taken and
\* the energy sold before the model stops issuing requests.
MaxActions == 2
MaxSnapshots == 2
MaxSoldKwh == 3

\* The actions requests are made of: for each device a valid write, writes
\* that fail validation, and values float() maps to nan or cannot parse.
HomeActions ==
    {Action("thermostat", "set",
            Update(Item("temperature", JNum(72)), Item("mode", "cool")), NoTarget),
     Action("thermostat", "set", Item("temperature", JNum(95)), NoTarget),
     Action("thermostat", "set", Item("temperature", JStr("nan")), NoTarget),
     Action("thermostat", "set", Item("temperature", JStr("hot")), NoTarget),
     Action("thermostat", "set", Item("temperature_f", JNum(95)), NoTarget),
     Action("thermostat", "adjust", EmptyDict, Float(68)),
     Action("battery", "set",
            Update(Item("soc_percent", JNum(100)), Item("backup_reserve", JStr("72"))),
            NoTarget),
     Action("battery", "set", Item("backup_reserve", JNum(150)), NoTarget),
     Action("solar", "read", EmptyDict, NoTarget),
     Action("solar", "set", Item("production_kw", JNum(10)), NoTarget),
     Action("grid", "set", Item("connection_status", "connected"), NoTarget),
     Action("grid", "set", Item("connection_status", "backup_ready"), NoTarget),
     Action("grid", "set", Item("sell_energy", JNum(3)), NoTarget)}

HomeRequests ==
    UNION {[1..n -> HomeActions] : n \in 0..MaxActions}

Sells(actions) ==
    \E i \in 1..Len(actions) : Has(actions[i].parameters, "sell_energy")

NoResult ==
    [kind |-> "none", success |-> TRUE, error |-> None, failed_at |-> 0,
     executed |-> 0, n |-> 0]

\* HomeStateAgent.process_request.  No LLM is configured (no OpenAI key), so
\* agent_executor is None and the request ends after the loop.
process_request(actions) ==
    /\ state_history < MaxSnapshots
    /\ Sells(actions) => Lt(current_state.financials.total_energy_sold_kwh,
                            Float(MaxSoldKwh))
    /\ \E run \in {RunActions(current_state, actions, 1)} :
          /\ current_state' = run.state
          /\ state_history' = IF run.kind = "returned" /\ run.success
                              THEN SnapshotSaved(state_history)
                              ELSE state_history
          /\ home_result' = [kind |-> run.kind, success |-> run.success,
                             error |-> run.error, failed_at |-> run.failed_at,
                             executed |-> run.executed, n |-> Len(actions)]
    /\ UNCHANGED <<initial_state, coordVars, orchVars>>

\* HomeStateAgent.reset_to_initial_state
reset_to_initial_state ==
    /\ current_state' = initial_state
    /\ state_history' = 0
    /\ home_result' = NoResult
    /\ UNCHANGED <<initial_state, coordVars, orchVars>>

\* POST /emergency-prep (home_state_api.py): process_request on the fixed
\* emergency-preparation batch; an exception becomes HTTP 500.
EmergencyBatch ==
    <<Action("thermostat", "set",
             Update(Item("temperature", JNum(68)), Item("mode", "cool")), NoTarget),
      Action("battery", "set",
             Update(Item("soc_percent", JNum(100)), Item("backup_reserve", JNum(20))),
             NoTarget),
      Action("grid", "set", Item("connection_status", "backup_ready"), NoTarget)>>
emergency_preparation == process_request(EmergencyBatch)

(***************************************************************************)
(* The Threat Assessment Agent (threat_assessment_agent.py,                 *)
(* threat_models.py, api_clients.py)                                        *)
(***************************************************************************)
\* ThreatLevel, in the order of its severities, and ThreatType.
ThreatLevels == <<"low", "moderate", "high", "critical">>
ThreatTypes == {"heat_wave", "grid_strain", "power_outage", "energy_shortage", "combined"}
Severity(level) == CHOOSE i \in DOMAIN ThreatLevels : ThreatLevels[i] = level

\* weather_data / grid_data: None, or a reading (the fields the rules read).
NoData == [none |-> TRUE]
WeatherData(temperature_f) == [temperature_f |-> temperature_f]
GridData(current_demand_mw) == [current_demand_mw |-> current_demand_mw]

\* Confidences are in hundredths (0.95 is 95).
ThreatIndicator(indicator_type, value, threshold, severity, confidence) ==
    [indicator_type |-> indicator_type, value |-> value, threshold |-> threshold,
     severity |-> severity, confidence |-> confidence]
ThreatAnalysis(overall_threat_level, threat_types, confidence_score, indicators) ==
    [overall_threat_level |-> overall_threat_level, threat_types |-> threat_types,
     confidence_score |-> confidence_score, indicators |-> indicators]

Range(seq) == {seq[i] : i \in DOMAIN seq}
NoFindings == [indicators |-> <<>>, threat_types |-> <<>>]
Finding(indicator, threat_types) ==
    [indicators |-> <<indicator>>, threat_types |-> threat_types]

\* _rule_based_analysis, the weather rules
WeatherFindings(weather_data) ==
    LET Rules(temp) ==
            IF temp > 105
            THEN Finding(ThreatIndicator("temperature", temp, 105, "critical", 95),
                         <<"heat_wave">>)
            ELSE IF temp > 100
            THEN Finding(ThreatIndicator("temperature", temp, 100, "high", 85),
                         <<"heat_wave">>)
            ELSE IF temp > 95
            THEN Finding(ThreatIndicator("temperature", temp, 95, "moderate", 75),
                         <<"heat_wave">>)
            ELSE NoFindings
    IN IF weather_data = NoData THEN NoFindings
       ELSE Rules(weather_data.temperature_f)

\* _rule_based_analysis, the grid rules
GridFindings(grid_data) ==
    LET Rules(demand) ==
            IF demand > 85000
            THEN Finding(ThreatIndicator("grid_demand", demand, 85000, "critical", 90),
                         <<"grid_strain", "power_outage">>)
            ELSE IF demand > 80000
            THEN Finding(ThreatIndicator("grid_demand", demand, 80000, "high", 80),
                         <<"grid_strain">>)
            ELSE IF demand > 75000
            THEN Finding(ThreatIndicator("grid_demand", demand, 75000, "moderate", 70),
                         <<"grid_strain">>)
            ELSE NoFindings
    IN IF grid_data = NoData THEN NoFindings
       ELSE Rules(grid_data.current_demand_mw)

\* A variant of the overall threat level that disregards the indicators.
LowestLevel(indicators) == "low"

\* The overall threat level: the highest severity among the indicators.
OverallLevel(indicators) ==
    IF \E i \in DOMAIN indicators : indicators[i].severity = "critical" THEN "critical"
    ELSE IF \E i \in DOMAIN indicators : indicators[i].severity = "high" THEN "high"
    ELSE IF \E i \in DOMAIN indicators : indicators[i].severity = "moderate" THEN "moderate"
    ELSE "low"

\* list(set(threat_types)): the types without duplicates, in whatever order
\* the set's iteration gives (string hashes differ from process to process).
ListOfSet(types) ==
    {order \in [1..Cardinality(types) -> types] :
        \A i, j \in DOMAIN order : i # j => order[i] # order[j]}

\* ThreatAnalysis(..., confidence_score=0.7, ...)
RuleConfidence == 70

\* _rule_based_analysis: every analysis the call can return, or the exception
\* it raises.  With more than two types the priority table is built, and its
\* entry ThreatType.AIR_QUALITY names a member the enum does not have.
_rule_based_analysis(weather_data, grid_data) ==
    LET Analyses(w, g) ==
            IF Cardinality(Range(w.threat_types \o g.threat_types)) > 2
            THEN {Raise("AttributeError")}
            ELSE {Return(ThreatAnalysis(OverallLevel(w.indicators \o g.indicators),
                                        threat_types, RuleConfidence,
                                        w.indicators \o g.indicators)) :
                     threat_types \in ListOfSet(Range(w.threat_types \o g.threat_types))}
    IN Analyses(WeatherFindings(weather_data), GridFindings(grid_data))

\* The readings of the model: temperatures (F) and grid demands (MW) on both
\* sides of every threshold of the rules.
Temperatures == {88, 92, 96, 101, 106}
Demands == {65000, 72000, 78000, 82000, 86000}

\* EIAClient._create_realistic_grid_data: a random demand, at least 30000 and
\* at most 75000 + 8000 + 2000.
SyntheticDemands == {d \in Demands : 30000 <= d /\ d <= 85000}

\* What the sources of one analyze_threats call do.  The weather client and
\* the two mock loaders raise or return a reading.  The grid client returns
\* the live ERCOT reading, or, with ERCOT unavailable (no credentials, or a
\* failed request), a synthetic reading; it raises only when the client
\* cannot be entered.
Readings(make(_), values) == {NoData} \cup {make(v) : v \in values}
Sources ==
    [weather_api : Readings(WeatherData, Temperatures),
     mock_weather : Readings(WeatherData, {96}),
     ercot : {"live", "unavailable", "raises"},
     grid_api : Readings(GridData, Demands),
     mock_grid : Readings(GridData, {78000})]
Consistent(env) ==
    /\ env.weather_api # NoData => env.mock_weather = NoData
    /\ env.ercot = "raises" <=> env.grid_api = NoData
    /\ env.ercot # "raises" => env.mock_grid = NoData
    /\ env.ercot = "unavailable" =>
           env.grid_api \in {GridData(d) : d \in SyntheticDemands}
Environments == {env \in Sources : Consistent(env)}

\* analyze_threats, step 1: the real API first, the mock loader when it raises,
\* None when both raise.
GatherWeather(env) ==
    IF env.weather_api # NoData THEN env.weather_api ELSE env.mock_weather
GatherGrid(env) ==
    IF env.grid_api # NoData THEN env.grid_api ELSE env.mock_grid

\* Every real and mock source of weather and of grid data is unavailable.
AllSourcesDown(env) ==
    /\ env.weather_api = NoData /\ env.mock_weather = NoData
    /\ env.ercot # "live" /\ env.mock_grid = NoData

NoAnalysis == [none |-> TRUE]
ThreatAnalysisResult(success, analysis, weather_data, grid_data) ==
    [success |-> success, analysis |-> analysis,
     weather_data |-> weather_data, grid_data |-> grid_data]

\* analyze_threats with no LLM configured: _synthesize_threat_analysis is
\* _rule_based_analysis, and any exception gives success=False.
analyze_threats(env) ==
    LET Results(weather_data, grid_data) ==
            {IF r.error # None
             THEN ThreatAnalysisResult(FALSE, NoAnalysis, weather_data, grid_data)
             ELSE ThreatAnalysisResult(TRUE, r.value, weather_data, grid_data) :
                 r \in _rule_based_analysis(weather_data, grid_data)}
    IN Results(GatherWeather(env), GatherGrid(env))

(***************************************************************************)
(* The action generator (agent_orchestrator.py)                             *)
(***************************************************************************)
\* An optional number: <<>> is None, <<v>> is the value v.
Nothing == <<>>
Some(v) == <<v>>

\* _extract_threat_parameters, for the two parameters the rules read: the
\* value of the last indicator of the type, None when there is none.
RECURSIVE LastValue(_, _, _)
LastValue(indicators, indicator_type, i) ==
    IF i = 0 THEN Nothing
    ELSE IF indicators[i].indicator_type = indicator_type
    THEN Some(indicators[i].value)
    ELSE LastValue(indicators, indicator_type, i - 1)
_extract_threat_parameters(threat_analysis) ==
    [temperature |-> LastValue(threat_analysis.indicators, "temperature",
                               Len(threat_analysis.indicators)),
     grid_demand |-> LastValue(threat_analysis.indicators, "grid_demand",
                               Len(threat_analysis.indicators))]

Set(device_type, parameters) == Action(device_type, "set", parameters, NoTarget)
ThermostatParameters(temperature, fan_mode) ==
    Update(Update(Item("temperature", JNum(temperature)), Item("mode", "cool")),
           Item("fan_mode", fan_mode))
BatteryParameters(soc_percent, backup_reserve) ==
    Update(Item("soc_percent", JNum(soc_percent)),
           Item("backup_reserve", JNum(backup_reserve)))
\* Rates are in cents per kWh (0.95 is 95).
SaleParameters(sell_energy, rate_usd_per_kwh) ==
    Update(Item("sell_energy", JNum(sell_energy)),
           Item("rate_usd_per_kwh", JNum(rate_usd_per_kwh)))

_generate_heat_wave_actions(params) ==
    LET Rules(temp) ==
            LET target_temp == IF temp > 105 THEN 65 ELSE IF temp > 100 THEN 68
                               ELSE IF temp > 95 THEN 70 ELSE IF temp > 90 THEN 72
                               ELSE 74
                backup_reserve == IF temp > 105 THEN 40 ELSE IF temp > 100 THEN 30
                                  ELSE IF temp > 95 THEN 25 ELSE IF temp > 90 THEN 20
                                  ELSE 15
                fan_mode == IF temp > 100 THEN "high" ELSE "auto"
            IN <<Set("thermostat", ThermostatParameters(target_temp, fan_mode))>>
               \o (IF temp > 95
                   THEN <<Set("battery", BatteryParameters(100, backup_reserve))>>
                   ELSE <<>>)
    IN IF params.temperature = Nothing THEN <<>> ELSE Rules(params.temperature[1])

_generate_grid_strain_actions(params) ==
    LET Rules(demand) ==
            LET soc_target == IF demand > 80000 THEN 100 ELSE IF demand > 75000 THEN 95
                              ELSE IF demand > 70000 THEN 90 ELSE 80
                backup_reserve == IF demand > 80000 THEN 50 ELSE IF demand > 75000 THEN 40
                                  ELSE IF demand > 70000 THEN 30 ELSE 20
                grid_mode == IF demand > 80000 THEN "backup_ready"
                             ELSE IF demand > 75000 THEN "conservation"
                             ELSE IF demand > 70000 THEN "monitoring" ELSE "normal"
                energy_sale == ~(demand > 75000)
            IN <<Set("battery", BatteryParameters(soc_target, backup_reserve)),
                 Set("grid", Item("connection_status", grid_mode))>>
               \o (IF energy_sale /\ demand > 70000
                   THEN <<Set("grid", SaleParameters(3, 95))>>
                   ELSE <<>>)
    IN IF params.grid_demand = Nothing THEN <<>> ELSE Rules(params.grid_demand[1])

_generate_power_outage_actions ==
    <<Set("battery", BatteryParameters(100, 60)),
      Set("thermostat", Update(Item("temperature", JNum(70)), Item("mode", "cool"))),
      Set("grid", Item("connection_status", "outage_prep"))>>

_generate_energy_shortage_actions ==
    <<Set("grid", SaleParameters(5, 120)),
      Set("battery", BatteryParameters(85, 25))>>

_generate_critical_emergency_actions ==
    <<Set("battery", BatteryParameters(100, 50)),
      Set("thermostat", ThermostatParameters(65, "high")),
      Set("grid", Item("connection_status", "emergency"))>>

NoOverride == <<>>
_generate_high_priority_actions ==
    <<Set("battery", BatteryParameters(95, 35)),
      Set("thermostat", Update(Item("temperature", JNum(68)), Item("mode", "cool")))>>

\* The loop over threat_types of _generate_home_actions, from type i on.
RECURSIVE ThreatTypeActions(_, _, _)
ThreatTypeActions(threat_types, params, i) ==
    IF i > Len(threat_types) THEN <<>>
    ELSE (CASE threat_types[i] = "heat_wave" -> _generate_heat_wave_actions(params)
            [] threat_types[i] = "grid_strain" -> _generate_grid_strain_actions(params)
            [] threat_types[i] = "power_outage" -> _generate_power_outage_actions
            [] threat_types[i] = "energy_shortage" -> _generate_energy_shortage_actions
            [] OTHER -> <<>>)
         \o ThreatTypeActions(threat_types, params, i + 1)

\* The actions of _generate_home_actions before the duplicates are removed:
\* those of the threat types in their order, then those of the threat level.
RuleOutputs(threat_analysis) ==
    ThreatTypeActions(threat_analysis.threat_types,
                      _extract_threat_parameters(threat_analysis), 1)
    \o (IF threat_analysis.overall_threat_level = "critical"
        THEN _generate_critical_emergency_actions
        ELSE IF threat_analysis.overall_threat_level = "high"
        THEN _generate_high_priority_actions
        ELSE <<>>)

Key(action) == <<action.device_type, action.action_type>>

\* A variant of the replacement in _deduplicate_actions that keeps the action
\* seen first.
KeepFirst(unique_actions, action) == unique_actions

\* unique_actions[i] = action, for the first i with the key of action
ReplaceLatest(unique_actions, action) ==
    LET i == CHOOSE k \in DOMAIN unique_actions :
                 /\ Key(unique_actions[k]) = Key(action)
                 /\ \A j \in 1..(k - 1) : Key(unique_actions[j]) # Key(action)
    IN [unique_actions EXCEPT ![i] = action]

\* _deduplicate_actions: the loop from action i on.
RECURSIVE DeduplicateFrom(_, _, _)
DeduplicateFrom(actions, unique_actions, i) ==
    IF i > Len(actions) THEN unique_actions
    ELSE DeduplicateFrom(
             actions,
             IF \A k \in DOMAIN unique_actions : Key(unique_actions[k]) # Key(actions[i])
             THEN Append(unique_actions, actions[i])
             ELSE ReplaceLatest(unique_actions, actions[i]),
             i + 1)
_deduplicate_actions(actions) == DeduplicateFrom(actions, <<>>, 1)

_generate_home_actions(threat_analysis) ==
    _deduplicate_actions(RuleOutputs(threat_analysis))

\* A call of _generate_home_actions on its own, on the assessment it is
\* pending for.
NoGeneration == [done |-> FALSE, of |-> NoAnalysis, actions |-> <<>>]
Generated(threat_analysis) ==
    [done |-> TRUE, of |-> threat_analysis,
     actions |-> _generate_home_actions(threat_analysis)]
Pending(threat_analysis) ==
    [done |-> FALSE, of |-> threat_analysis, actions |-> <<>>]
generate_home_actions ==
    /\ ~generation.done
    /\ generation' = Generated(generation.of)
    /\ UNCHANGED <<threat_result, pipeline_result, orchestrator_homeowners>>
    /\ UNCHANGED <<coordVars, homeVars>>

(***************************************************************************)
(* The threat-to-action pipeline (agent_orchestrator.py)                    *)
(***************************************************************************)
NoThreatResult ==
    [ran |-> FALSE, success |-> FALSE, analysis |-> NoAnalysis,
     weather_data |-> NoData, grid_data |-> NoData, sources_down |-> FALSE]
NoPipelineResult ==
    [ran |-> FALSE, success |-> FALSE, message |-> None, home_actions_none |-> TRUE,
     home_actions |-> <<>>, home_touched |-> FALSE, warning_calls |-> 0]

\* The dict process_threat_to_action returns.  home_actions is None
\* (home_actions_none) or a list.
Failure(message) ==
    [ran |-> TRUE, success |-> FALSE, message |-> message, home_actions_none |-> TRUE,
     home_actions |-> <<>>, warning_calls |-> 0]
Success(message, home_actions, warning_calls) ==
    [ran |-> TRUE, success |-> TRUE, message |-> message, home_actions_none |-> FALSE,
     home_actions |-> home_actions, warning_calls |-> warning_calls]

\* Step 2 is entered: a high or critical level with homeowners registered.
WarningCallsDue(threat) ==
    /\ threat.analysis.overall_threat_level \in {"high", "critical"}
    /\ orchestrator_homeowners # {}
\* WeatherEvent(severity=overall_threat_level.value): severity is one of low,
\* medium, high, extreme, so the model rejects "critical".
WeatherEventSeverities == {"low", "medium", "high", "extreme"}
WeatherEventRaises(threat) ==
    threat.analysis.overall_threat_level \notin WeatherEventSeverities

\* A variant of the test of step 3 that never takes the no-op return.
ActionsAlwaysRequired(home_actions) == FALSE

\* if not home_actions
NoActionsRequired(home_actions) == home_actions = <<>>

\* Step 5 is entered; send_resolution_call then reads
\* home_status.profit_generated of a HomeState, which has no such field.
ResolutionCallsDue(run) == orchestrator_homeowners # {} /\ run.success

Recorded(threat, env) ==
    [ran |-> TRUE, success |-> threat.success, analysis |-> threat.analysis,
     weather_data |-> threat.weather_data, grid_data |-> threat.grid_data,
     sources_down |-> AllSourcesDown(env)]
Touched(result) ==
    [ran |-> result.ran, success |-> result.success, message |-> result.message,
     home_actions_none |-> result.home_actions_none,
     home_actions |-> result.home_actions,
     home_touched |-> (current_state' # current_state
                       \/ state_history' # state_history),
     warning_calls |-> result.warning_calls]

\* Steps 4 and 5 of process_threat_to_action.
ExecuteHomeActions(home_actions, warning_calls) ==
    /\ Sells(home_actions) => Lt(current_state.financials.total_energy_sold_kwh,
                                 Float(MaxSoldKwh))
    /\ \E run \in {RunActions(current_state, home_actions, 1)} :
          /\ current_state' = run.state
          /\ state_history' = IF run.kind = "returned" /\ run.success
                              THEN SnapshotSaved(state_history)
                              ELSE state_history
          /\ home_result' = [kind |-> run.kind, success |-> run.success,
                             error |-> run.error, failed_at |-> run.failed_at,
                             executed |-> run.executed, n |-> Len(home_actions)]
          /\ pipeline_result' =
                 Touched(IF run.kind = "raised" \/ ResolutionCallsDue(run)
                         THEN Failure("Pipeline execution failed")
                         ELSE Success("Complete threat-to-action pipeline executed",
                                      home_actions, warning_calls))

\* AgentOrchestrator.process_threat_to_action, as one step: the calls of step
\* 2 and 5 are those of the orchestrator's own voice service, which the
\* coordinator never tracks.
process_threat_to_action(env) ==
    /\ state_history < MaxSnapshots
    /\ \E threat \in analyze_threats(env) :
          /\ threat_result' = Recorded(threat, env)
          /\ IF ~threat.success
             THEN /\ UNCHANGED <<current_state, state_history, home_result>>
                  /\ generation' = NoGeneration
                  /\ pipeline_result' = Touched(Failure("Threat analysis failed"))
             ELSE IF WarningCallsDue(threat) /\ WeatherEventRaises(threat)
             THEN /\ UNCHANGED <<current_state, state_history, home_result>>
                  /\ generation' = NoGeneration
                  /\ pipeline_result' =
                         Touched(Failure("Pipeline execution failed"))
             ELSE \E warning_calls \in
                        {IF WarningCallsDue(threat)
                         THEN Cardinality(orchestrator_homeowners) ELSE 0} :
                    /\ generation' = Generated(threat.analysis)
                    /\ IF NoActionsRequired(generation'.actions)
                       THEN /\ UNCHANGED <<current_state, state_history, home_result>>
                            /\ pipeline_result' =
                                   Touched(Success("No actions required", <<>>,
                                                   warning_calls))
                       ELSE ExecuteHomeActions(generation'.actions, warning_calls)
    /\ UNCHANGED <<initial_state, orchestrator_homeowners>>
    /\ UNCHANGED coordVars

\* A variant of the reset that clears the history and the homeowners and
\* leaves the devices and financials as they are.
reset_keeping_state ==
    /\ state_history' = 0
    /\ home_result' = NoResult
    /\ orchestrator_homeowners' = {}
    /\ UNCHANGED <<current_state, initial_state, threat_result, generation,
                   pipeline_result>>
    /\ UNCHANGED coordVars

\* AgentOrchestrator.reset_system
reset_system ==
    /\ current_state' = initial_state
    /\ state_history' = 0
    /\ home_result' = NoResult
    /\ orchestrator_homeowners' = {}
    /\ UNCHANGED <<initial_state, threat_result, generation, pipeline_result>>
    /\ UNCHANGED coordVars

(***************************************************************************)
(* The state machines                                                       *)
(***************************************************************************)
EmptyCount == [c \in {} |-> 0]

\* The module-level state of __init__.py after import, with the number of
\* warning calls that will be requested.
CoordinatorInit(budget) ==
    /\ simulate_mode \in BOOLEAN
    /\ now = 0
    /\ registered_homeowners = <<>>
    /\ warning_call_ids = {}
    /\ resolution_call_ids = {}
    /\ pending_follow_ups = EmptyCount
    /\ tasks = {}
    /\ heatwaves = {}
    /\ provider_calls = 0
    /\ issued = {}
    /\ warning_budget = budget
    /\ tracked = EmptyCount
    /\ queued = EmptyCount
    /\ attempts = EmptyCount
    /\ skipSeen = {}
    /\ endedFor = {}
    /\ resolutionLog = {}
    /\ last = NoDelivery

\* AgentOrchestrator.__init__
OrchestratorInit ==
    /\ orchestrator_homeowners = {}
    /\ threat_result = NoThreatResult
    /\ generation = NoGeneration
    /\ pipeline_result = NoPipelineResult

\* HomeStateAgent.__init__: the state _load_initial_state gives.
HomeInit ==
    /\ initial_state \in {DefaultState, ProvisionedState}
    /\ current_state = initial_state
    /\ state_history = 0
    /\ home_result = NoResult

\* The coordinator runs beside a home that was never provisioned.
Init ==
    /\ CoordinatorInit(MaxWarnings) /\ OrchestratorInit /\ HomeInit
    /\ initial_state = DefaultState

\* The call-lifecycle coordinator (the FastAPI app of __init__.py).
Next ==
    \/ \E p \in Phones : RegisterHomeowner(p)
    \/ reset_simulation
    \/ simulate_heatwave
    \/ \E created \in BOOLEAN : simulate_heatwave_send(created)
    \/ \E id \in heatwaves : simulate_heatwave_resume(id)
    \/ \E req \in WebhookRequests : Webhook(req)
    \/ \E t \in tasks : process_follow_up_call(t)
    \/ \E t \in tasks, created \in BOOLEAN : send_resolution_call_returns(t, created)
    \/ NextSecond
    \/ SleepUntilDue
Spec == Init /\ [][Next]_vars

\* The coordinator with a simulated voice service (no VAPI_API_KEY), where
\* call ids are seconds, and one more warning call requested, so that a
\* later call can be placed in the second that named an earlier one.
InitSimulated ==
    /\ CoordinatorInit(MaxWarnings + 1) /\ OrchestratorInit /\ HomeInit
    /\ simulate_mode
    /\ initial_state = DefaultState
NextSimulated ==
    \/ \E p \in Phones : RegisterHomeowner(p)
    \/ reset_simulation
    \/ simulate_heatwave
    \/ \E req \in WebhookRequests : Webhook(req)
    \/ \E t \in tasks : process_follow_up_call(t)
    \/ NextSecond
    \/ SleepUntilDue
SpecSimulated == InitSimulated /\ [][NextSimulated]_vars

\* The coordinator together with the orchestrator's call placing.
NextCalls ==
    \/ \E p \in Phones : RegisterHomeowner(p)
    \/ reset_simulation
    \/ simulate_heatwave
    \/ \E created \in BOOLEAN : simulate_heatwave_send(created)
    \/ \E id \in heatwaves : simulate_heatwave_resume(id)
    \/ \E req \in WebhookRequests : Webhook(req)
    \/ \E t \in tasks : process_follow_up_call(t)
    \/ \E t \in tasks, created \in BOOLEAN : send_resolution_call_returns(t, created)
    \/ NextSecond
    \/ SleepUntilDue
    \/ \E p \in Phones : orchestrator_register_homeowner(p)
    \/ send_completion_calls
SpecCalls == Init /\ [][NextCalls]_vars

(***************************************************************************)
(* Properties of the coordinator                                            *)
(***************************************************************************)
CallIds == DOMAIN tracked \cup DOMAIN queued \cup DOMAIN attempts
LiveTask(c) == \E t \in tasks : t.call_id = c

\* C1: whatever the interleaving of webhook deliveries (duplicates included),
\* suspended handlers and follow-up timers, a call id has at most one
\* follow-up queued for each time it was tracked as a warning call, and the
\* resolution call is attempted at most once for each queued follow-up.
AtMostOneFollowUp ==
    \A c \in CallIds :
        /\ Count(queued, c) <= Count(tracked, c)
        /\ Count(attempts, c) <= Count(queued, c)

\* C1 witness: with a real provider, the follow-up of a warning call is
\* suspended in its resolution call when another ended event for that call
\* arrives; one follow-up was queued and one call attempted.
AtMostOneFollowUpWitness ==
    /\ \E t \in tasks : /\ t.pc = "calling"
                        /\ DOMAIN queued = {t.call_id}
                        /\ Count(queued, t.call_id) = 1
                        /\ Count(attempts, t.call_id) = 1
    /\ last.kind = "delivery" /\ last.ended /\ ~last.skip /\ last.wasQueued

\* C2: an ended event for the call id whose follow-up the previous step
\* queued is answered already_queued or not_warning_call and queues nothing;
\* and once no follow-up timer of a call id is left, the resolution call has
\* been attempted exactly once per follow-up queued for it.
IdempotentFollowUp ==
    /\ (last.kind = "delivery" /\ last.again) =>
           /\ last.status \in {"already_queued", "not_warning_call"}
           /\ last.queuedId = NoneId
    /\ \A c \in CallIds : ~LiveTask(c) => Count(attempts, c) = Count(queued, c)

\* C2 witness: the same ended event was delivered twice in a row for a tracked
\* warning call with a customer number; the second answer is in, one
\* follow-up is queued and its timer is pending.
IdempotentFollowUpWitness ==
    /\ last.kind = "delivery" /\ last.again /\ ~last.skip
    /\ last.status = "not_warning_call"
    /\ \E t \in tasks : /\ t.pc = "sleeping"
                        /\ t.customer_number = Phone
                        /\ Count(queued, t.call_id) = 1
                        /\ DOMAIN queued = {t.call_id}

\* C3 (as stated, its weaker half): an ended event for a call id that is in
\* resolution_call_ids never inserts a pending record nor schedules a timer.
NoSelfRetrigger ==
    (last.kind = "delivery" /\ last.ended /\ last.wasResolution) =>
        last.queuedId = NoneId

\* C4 (as stated): once a skip-reason ended event has been received for a
\* tracked warning call id, no later webhook for that id queues a follow-up.
SkipIsTerminal ==
    (last.kind = "delivery" /\ last.wasSkipped) => last.queuedId = NoneId

\* C5 (as stated): a delivery changes warning_call_ids, pending_follow_ups or
\* the timers only if it is an ended event with a non-skip reason for a
\* tracked warning call, and never if its call id is a resolution call id.
WebhookFrame ==
    (last.kind = "delivery" /\ last.changed) =>
        /\ last.ended /\ ~last.skip /\ last.wasTracked
        /\ ~last.wasResolution

\* C6: every request body is answered with one of the six status tokens.
AlwaysStatusToken ==
    last.kind = "delivery" => last.status \in StatusTokens

\* C6 witness: a delivery whose handling raised was answered "error".
AlwaysStatusTokenWitness ==
    last.kind = "delivery" /\ last.status = "error"

\* C7 (as stated): a pending record outlives its follow-up timer never: every
\* record in pending_follow_ups has a timer task that is still to finish.
EveryRecordRemoved ==
    \A c \in DOMAIN pending_follow_ups : LiveTask(c)

\* C8 (as stated): every resolution call placed, by whatever path, goes to a
\* number carried by an ended event received for a tracked warning call.
ResolutionOnlyAfterWebhook ==
    \A e \in resolutionLog : e.to \in endedFor

\* C8 (amended): every resolution call placed by the follow-up timer goes to a
\* number carried by an ended event received for a tracked warning call.
FollowUpOnlyAfterWebhook ==
    \A e \in resolutionLog :
        e.via = "process_follow_up_call" => e.to \in endedFor

\* C8 witness: the follow-up timer has placed a resolution call.
FollowUpOnlyAfterWebhookWitness ==
    \E e \in resolutionLog : e.via = "process_follow_up_call" /\ e.to \in endedFor

\* The Home State Agent alone.
InitHome == CoordinatorInit(MaxWarnings) /\ OrchestratorInit /\ HomeInit
NextHome ==
    \/ \E actions \in HomeRequests : process_request(actions)
    \/ reset_to_initial_state
    \/ emergency_preparation
SpecHome == InitHome /\ [][NextHome]_vars

\* The assessments the generator is called with: any level, up to two threat
\* types in any order (duplicates included), and at most one indicator each
\* for temperature and grid demand.
TypeLists == UNION {[1..n -> ThreatTypes] : n \in 0..2}
IndicatorLists ==
    {t \o g :
        t \in {<<>>} \cup {<<ThreatIndicator("temperature", v, 95, "moderate", 75)>> :
                               v \in Temperatures},
        g \in {<<>>} \cup {<<ThreatIndicator("grid_demand", v, 75000, "moderate", 70)>> :
                               v \in Demands}}
Assessments ==
    {ThreatAnalysis(level, types, RuleConfidence, indicators) :
        level \in Range(ThreatLevels), types \in TypeLists,
        indicators \in IndicatorLists}

\* The action generator alone, called once on any of the assessments.
InitGenerator ==
    /\ CoordinatorInit(MaxWarnings) /\ HomeInit
    /\ ~simulate_mode /\ initial_state = DefaultState
    /\ orchestrator_homeowners = {}
    /\ threat_result = NoThreatResult
    /\ pipeline_result = NoPipelineResult
    /\ generation \in {Pending(a) : a \in Assessments}
NextGenerator == generate_home_actions
SpecGenerator == InitGenerator /\ [][NextGenerator]_vars

\* The orchestrator's pipeline over the two agents.
InitPipeline == InitHome /\ ~simulate_mode
NextPipeline ==
    \/ \E p \in Phones : orchestrator_register_homeowner(p)
    \/ \E env \in Environments : process_threat_to_action(env)
    \/ reset_system
SpecPipeline == InitPipeline /\ [][NextPipeline]_vars

(***************************************************************************)
(* Properties of the Home State Agent                                       *)
(***************************************************************************)
InRange(x, lo, hi) == ~x.nan /\ lo <= x.v /\ x.v <= hi
NonNegative(x) == ~x.nan /\ x.v >= 0
PropertyOk(d, k, ok(_)) == Has(d, k) => ok(d[k])
DeviceOk(state, device_type, ok(_)) ==
    Has(state.devices, device_type) => ok(state.devices[device_type])

ThermostatOk(d) ==
    /\ PropertyOk(d, "temperature_f", LAMBDA x : InRange(x, 60, 90))
    /\ PropertyOk(d, "target_temperature_f", LAMBDA x : InRange(x, 60, 90))
    /\ PropertyOk(d, "mode", LAMBDA x : x \in {"heat", "cool", "auto", "off"})
    /\ PropertyOk(d, "fan_mode", LAMBDA x : x \in {"auto", "on", "circulate"})
BatteryOk(d) ==
    /\ PropertyOk(d, "soc_percent", LAMBDA x : InRange(x, 0, 100))
    /\ PropertyOk(d, "backup_reserve_percent", LAMBDA x : InRange(x, 0, 100))
SolarOk(d) ==
    /\ PropertyOk(d, "current_production_kw", LAMBDA x : InRange(x, 0, 50))
    /\ PropertyOk(d, "efficiency_percent", LAMBDA x : InRange(x, 0, 100))
GridOk(d) ==
    /\ PropertyOk(d, "connection_status",
                  LAMBDA x : x \in {"connected", "disconnected", "maintenance"})
    /\ PropertyOk(d, "sell_energy_kwh", NonNegative)
    /\ PropertyOk(d, "rate_usd_per_kwh", NonNegative)

\* C9 (as stated): after any sequence of process_request calls on a home
\* provisioned within bounds, every device property is within its bound
\* table and every mode, fan mode and connection status is an allowed value.
DevicesWithinBounds ==
    /\ DeviceOk(current_state, "thermostat", ThermostatOk)
    /\ DeviceOk(current_state, "battery", BatteryOk)
    /\ DeviceOk(current_state, "solar", SolarOk)
    /\ DeviceOk(current_state, "grid", GridOk)

\* C10 (as stated): when an action of a request fails validation,
\* process_request returns a result, with success = false.
ValidationFailureReported ==
    home_result.error = "HomeStateValidationError" =>
        home_result.kind = "returned" /\ ~home_result.success

\* A thermostat set whose temperature is under the key temperature_f, with a
\* value above MAX_TEMPERATURE_F.
TemperatureFSet ==
    Action("thermostat", "set", Item("temperature_f", JNum(95)), NoTarget)

\* C11 (as stated): applying a thermostat set action whose out-of-range
\* temperature is under the key temperature_f reports a validation failure
\* and leaves the thermostat's temperature_f as it was.
TemperatureFSetRejected ==
    [][process_request(<<TemperatureFSet>>) =>
          /\ home_result'.error = "HomeStateValidationError"
          /\ get_device(current_state', "thermostat")
                 = get_device(current_state, "thermostat")]_vars

(***************************************************************************)
(* Properties of the action generator                                       *)
(***************************************************************************)
FirstIndex(actions, key) ==
    CHOOSE i \in DOMAIN actions :
        Key(actions[i]) = key /\ \A j \in 1..(i - 1) : Key(actions[j]) # key
LastIndex(actions, key) ==
    CHOOSE i \in DOMAIN actions :
        Key(actions[i]) = key /\ \A j \in (i + 1)..Len(actions) : Key(actions[j]) # key
Keys(actions) == {Key(actions[i]) : i \in DOMAIN actions}

\* out is the first-seen-slot / last-write-value deduplication of all.
FirstSlotLastValue(out, all) ==
    /\ \A i, j \in DOMAIN out : i # j => Key(out[i]) # Key(out[j])
    /\ Keys(out) = Keys(all)
    /\ \A i, j \in DOMAIN out :
           i < j => FirstIndex(all, Key(out[i])) < FirstIndex(all, Key(out[j]))
    /\ \A i \in DOMAIN out : out[i] = all[LastIndex(all, Key(out[i]))]

\* C12: for any assessment the generator's output is the first-seen-slot /
\* last-write-value deduplication of the concatenated rule outputs: no two
\* entries share a (device_type, action_type) pair, each pair sits at the
\* position of its first occurrence and is the action of its last occurrence.
DedupFirstSlotLastValue ==
    generation.done =>
        FirstSlotLastValue(generation.actions, RuleOutputs(generation.of))

\* C12 witness: the generator has run on an assessment two of whose rules
\* wrote different actions for a pair that is not the last slot of the
\* output.
DedupFirstSlotLastValueWitness ==
    /\ generation.done
    /\ \E i \in DOMAIN generation.actions :
          /\ i < Len(generation.actions)
          /\ generation.actions[i] #
                 RuleOutputs(generation.of)[FirstIndex(RuleOutputs(generation.of),
                                                       Key(generation.actions[i]))]

\* Some set action of the device carries every one of the parameters.
Carries(action, parameters) ==
    \A k \in DOMAIN parameters :
        Has(action.parameters, k) /\ action.parameters[k] = parameters[k]
Includes(actions, device_type, parameters) ==
    \E i \in DOMAIN actions :
        /\ Key(actions[i]) = <<device_type, "set">>
        /\ Carries(actions[i], parameters)
Fan(temperature, fan_mode) ==
    Update(Item("temperature", JNum(temperature)), Item("fan_mode", fan_mode))

\* C14: whichever threat-type rules fired, the output for a critical
\* assessment has battery, thermostat and grid set actions carrying soc 100 /
\* reserve 50, 65 with fan high, and emergency; for a high assessment the
\* battery and thermostat set actions carry soc 95 / reserve 35 and 68.
SeverityOverrideWins ==
    generation.done =>
        /\ generation.of.overall_threat_level = "critical" =>
               /\ Includes(generation.actions, "battery", BatteryParameters(100, 50))
               /\ Includes(generation.actions, "thermostat", Fan(65, "high"))
               /\ Includes(generation.actions, "grid",
                           Item("connection_status", "emergency"))
        /\ generation.of.overall_threat_level = "high" =>
               /\ Includes(generation.actions, "battery", BatteryParameters(95, 35))
               /\ Includes(generation.actions, "thermostat", Item("temperature", JNum(68)))

\* C14 witness: the generator has run on a high assessment whose threat-type
\* rules wrote other battery and thermostat values before the override.
SeverityOverrideWinsWitness ==
    /\ generation.done
    /\ generation.of.overall_threat_level = "high"
    /\ \E i \in DOMAIN RuleOutputs(generation.of) :
          /\ Key(RuleOutputs(generation.of)[i]) = <<"battery", "set">>
          /\ ~Carries(RuleOutputs(generation.of)[i], BatteryParameters(95, 35))
    /\ \E i \in DOMAIN RuleOutputs(generation.of) :
          /\ Key(RuleOutputs(generation.of)[i]) = <<"thermostat", "set">>
          /\ ~Carries(RuleOutputs(generation.of)[i], Item("temperature", JNum(68)))

(***************************************************************************)
(* Properties of the pipeline                                               *)
(***************************************************************************)
\* The last analysis gathered a temperature of 106 F and a demand of 82000 MW.
ScenarioReadings ==
    /\ threat_result.ran
    /\ threat_result.weather_data = WeatherData(106)
    /\ threat_result.grid_data = GridData(82000)
ScenarioClassified ==
    /\ threat_result.success
    /\ threat_result.analysis.overall_threat_level = "critical"
    /\ {"heat_wave", "grid_strain"} \subseteq Range(threat_result.analysis.threat_types)
ScenarioActions(grid_mode) ==
    /\ Includes(generation.actions, "thermostat", Fan(65, "high"))
    /\ Includes(generation.actions, "battery", BatteryParameters(100, 50))
    /\ Includes(generation.actions, "grid", Item("connection_status", grid_mode))
    /\ \A i \in DOMAIN generation.actions : ~Has(generation.actions[i].parameters, "sell_energy")

\* C13 (as stated): readings of 106 F and 82000 MW classify to critical with
\* heat_wave and grid_strain among the threat types, and the actions
\* generated from the assessment include thermostat 65 with fan high, battery
\* soc 100 / reserve 50, a grid action with mode backup_ready, and no sale.
ScenarioBackupReady ==
    ScenarioReadings =>
        /\ ScenarioClassified
        /\ generation.done => ScenarioActions("backup_ready")

\* C13 (amended): the same, but the grid action of the output carries the
\* mode emergency of the critical tier, which replaces backup_ready.
ScenarioEmergency ==
    ScenarioReadings =>
        /\ ScenarioClassified
        /\ generation.done => ScenarioActions("emergency")

\* C13 witness: the pipeline has classified the two readings and generated
\* the actions for them.
ScenarioEmergencyWitness ==
    /\ ScenarioReadings /\ generation.done
    /\ Len(generation.actions) = 3

\* No threat type is present and the level calls for no override.
NothingApplies(threat_analysis) ==
    /\ threat_analysis.threat_types = <<>>
    /\ threat_analysis.overall_threat_level \notin {"critical", "high"}

\* C15: when the assessment has no threat types and its level is neither
\* critical nor high, the generator returns the empty list and the pipeline
\* returns success=true with an empty home_actions list, having left the home
\* agent's state and history untouched.
NoOpReported ==
    /\ (generation.done /\ NothingApplies(generation.of)) =>
           generation.actions = <<>>
    /\ (pipeline_result.ran /\ threat_result.success
            /\ NothingApplies(threat_result.analysis)) =>
           /\ pipeline_result.success
           /\ ~pipeline_result.home_actions_none
           /\ pipeline_result.home_actions = <<>>
           /\ ~pipeline_result.home_touched

\* C15 witness: with a homeowner registered, the pipeline has returned its
\* no-op result for an assessment without threat types.
NoOpReportedWitness ==
    /\ pipeline_result.ran /\ threat_result.success
    /\ NothingApplies(threat_result.analysis)
    /\ generation.done /\ generation.actions = <<>>
    /\ pipeline_result.message = "No actions required"
    /\ orchestrator_homeowners # {}

(***************************************************************************)
(* Properties of the classifier                                             *)
(***************************************************************************)
\* The threat types the rules attach to the readings of the last analysis.
ImpliedTypes ==
    Range(WeatherFindings(threat_result.weather_data).threat_types
          \o GridFindings(threat_result.grid_data).threat_types)

\* C16 (as stated): the classification succeeds with at most two threat
\* types; when the readings imply more than two, they are the two of highest
\* priority, which for heat_wave, grid_strain and power_outage are
\* power_outage and grid_strain.
ThreatTypesCapped ==
    threat_result.ran =>
        /\ threat_result.success
        /\ Len(threat_result.analysis.threat_types) <= 2
        /\ Cardinality(ImpliedTypes) > 2 =>
               Range(threat_result.analysis.threat_types)
                   = {"power_outage", "grid_strain"}

\* C17 (as stated): the level classified for the reading of the last analysis
\* is at most the level classified for any higher temperature with the same
\* grid reading.
MonotoneInTemperature ==
    (threat_result.ran /\ threat_result.success
        /\ threat_result.weather_data # NoData) =>
        \A t2 \in Temperatures :
            t2 > threat_result.weather_data.temperature_f =>
                \A r \in _rule_based_analysis(WeatherData(t2), threat_result.grid_data) :
                    /\ r.error = None
                    /\ Severity(threat_result.analysis.overall_threat_level)
                           <= Severity(r.value.overall_threat_level)

\* The least of the confidences of the indicators (hundredths).
MinConfidence(indicators) ==
    CHOOSE c \in {indicators[i].confidence : i \in DOMAIN indicators} :
        \A i \in DOMAIN indicators : c <= indicators[i].confidence

\* C18 (as stated): the confidence of an assessment with indicators is the
\* minimum of their confidences, and lies between 0 and 1.
ConfidenceIsMinimum ==
    (threat_result.ran /\ threat_result.success
        /\ threat_result.analysis.indicators # <<>>) =>
        /\ threat_result.analysis.confidence_score
               = MinConfidence(threat_result.analysis.indicators)
        /\ threat_result.analysis.confidence_score \in 0..100

\* C19 (as stated): when neither the real weather and grid sources nor their
\* mock fallbacks deliver a reading, the analysis succeeds with level low and
\* no threat types.
FallbackLowEmpty ==
    (threat_result.ran /\ threat_result.sources_down) =>
        /\ threat_result.success
        /\ threat_result.analysis.overall_threat_level = "low"
        /\ threat_result.analysis.threat_types = <<>>

(***************************************************************************)
(* The ledger of the Home State Agent                                       *)
(***************************************************************************)
\* The actions the ledger is exercised with: sales with and without a rate,
\* with a connection status, with an amount that is negative or nan, a rate
\* alone, and sale parameters on an adjust action and on another device.
LedgerActions ==
    {Set("grid", SaleParameters(3, 95)),
     Set("grid", Item("sell_energy", JNum(3))),
     Set("grid", Item("rate_usd_per_kwh", JNum(95))),
     Set("grid", Update(SaleParameters(3, 95), Item("connection_status", "connected"))),
     Set("grid", Update(SaleParameters(3, 95), Item("connection_status", "backup_ready"))),
     Set("grid", SaleParameters(0 - 1, 95)),
     Set("grid", Update(Item("sell_energy", JStr("nan")),
                        Item("rate_usd_per_kwh", JNum(95)))),
     Action("grid", "adjust", SaleParameters(3, 95), NoTarget),
     Set("battery", SaleParameters(3, 95)),
     Set("battery", BatteryParameters(100, 50)),
     Set("battery", BatteryParameters(50, 150))}
LedgerRequests == UNION {[1..n -> LedgerActions] : n \in 1..MaxActions}

NextLedger ==
    \/ \E actions \in LedgerRequests : process_request(actions)
    \/ reset_to_initial_state
SpecLedger == InitPipeline /\ [][NextLedger]_vars

\* The amount and the rate of a sale: the rate the action carries, or the
\* default rate.
SaleAmount(action) == float(action.parameters["sell_energy"]).val
SaleRate(action) ==
    IF Has(action.parameters, "rate_usd_per_kwh")
    THEN float(action.parameters["rate_usd_per_kwh"]).val
    ELSE Float(DefaultRate)

\* Sum and product of floats, nan when an operand is nan.
Plus(a, b) == IF a.nan \/ b.nan THEN [nan |-> TRUE, v |-> 0]
              ELSE [nan |-> FALSE, v |-> a.v + b.v]
Times(a, b) == IF a.nan \/ b.nan THEN [nan |-> TRUE, v |-> 0]
               ELSE [nan |-> FALSE, v |-> a.v * b.v]

\* The step credits the sale of the action to both financial fields, once.
Credited(action) ==
    current_state'.financials =
        [profit_today_usd |->
             Plus(current_state.financials.profit_today_usd,
                  Times(SaleAmount(action), SaleRate(action))),
         total_energy_sold_kwh |->
             Plus(current_state.financials.total_energy_sold_kwh, SaleAmount(action))]
LedgerUnchanged == current_state'.financials = current_state.financials
Applied == home_result'.error = None

CarriesBoth(action) ==
    /\ action.device_type = "grid"
    /\ Has(action.parameters, "sell_energy")
    /\ Has(action.parameters, "rate_usd_per_kwh")
CarriesSale(action) ==
    /\ action.device_type = "grid" /\ action.action_type = "set"
    /\ Has(action.parameters, "sell_energy")

\* C20 (as stated): the application of an action credits the ledger exactly
\* when the action is applied and is a grid action carrying both a
\* sell-energy amount e and a rate r; profit then grows by e * r and the
\* energy sold by e, once; every other and every rejected action leaves both
\* financial fields unchanged.
LedgerCreditedIffBoth ==
    [][\A action \in LedgerActions :
          process_request(<<action>>) =>
              IF CarriesBoth(action) /\ Applied
              THEN Credited(action) /\ ~LedgerUnchanged
              ELSE LedgerUnchanged]_vars

\* C20 (amended): the application of an action credits the ledger exactly
\* when the action is applied and is a grid set action carrying a sell-energy
\* amount e; profit then grows by e * r, with r the rate the action carries
\* or the default rate, and the energy sold by e, once; every other and every
\* rejected action leaves both financial fields unchanged.
LedgerCreditedIffSale ==
    [][\A action \in LedgerActions :
          process_request(<<action>>) =>
              IF CarriesSale(action) /\ Applied
              THEN Credited(action) /\ ~LedgerUnchanged
              ELSE LedgerUnchanged]_vars

\* C20 witness: a request of one sale of 3 kWh at the default rate has been
\* applied to a home that had sold nothing.
LedgerCreditedIffSaleWitness ==
    /\ home_result.kind = "returned" /\ home_result.n = 1
    /\ state_history = 1
    /\ current_state.financials.total_energy_sold_kwh = Float(3)
    /\ current_state.financials.profit_today_usd = Float(3 * DefaultRate)

(***************************************************************************)
(* Properties of reset                                                      *)
(***************************************************************************)
\* C21: while no request has been processed since the last reset (or since
\* construction), the devices and financials are exactly those loaded at
\* provisioning and the state history is empty, whatever was applied before
\* the reset; so the state after a second reset is the state after the first.
ResetRestoresDefaults ==
    home_result.kind = "none" =>
        /\ current_state = initial_state
        /\ state_history = 0

\* C21 witness: a provisioned home is back at its defaults, with an empty
\* history, after a pipeline run that had changed it.
ResetRestoresDefaultsWitness ==
    /\ home_result.kind = "none"
    /\ pipeline_result.ran /\ pipeline_result.home_touched
    /\ initial_state = ProvisionedState
    /\ current_state = ProvisionedState
    /\ state_history = 0

(***************************************************************************)
(* Properties of the emergency-preparation batch                            *)
(***************************************************************************)
\* C22 (as stated): the emergency-preparation batch applied to a provisioned
\* home returns success=true with three action results, and afterwards the
\* battery's soc_percent is 100 and the grid's connection_status backup_ready.
EmergencyBatchSucceeds ==
    [][(emergency_preparation /\ initial_state = ProvisionedState) =>
          /\ home_result'.kind = "returned" /\ home_result'.success
          /\ home_result'.executed = 3
          /\ current_state'.devices["battery"]["soc_percent"] = Float(100)
          /\ current_state'.devices["grid"]["connection_status"] = "backup_ready"]_vars


(***************************************************************************)
(* generate_intelligent_actions (home_state_agent.py)                       *)
(***************************************************************************)
\* The names home_state_agent.py binds at module level: its imports and its
\* classes.
ModuleGlobals ==
    {"json", "time", "asyncio", "Path", "Dict", "List", "Optional", "Any",
     "datetime", "AgentExecutor", "create_tool_calling_agent", "BaseTool",
     "ChatPromptTemplate", "HumanMessage", "SystemMessage", "ChatOpenAI",
     "BaseModel", "Field", "HomeStateRequest", "HomeStateResult", "HomeState",
     "Action", "ActionResult", "DeviceType", "ActionType", "DeviceState",
     "HomeMetadata", "FinancialData", "HomeStateValidationError",
     "DeviceOperationError", "StateValidator", "HomeStateTool", "ThermostatTool",
     "BatteryTool", "SolarTool", "GridTool", "HomeStateAgent"}
\* The members of the ThreatLevel enum (threat_models.py).
ThreatLevelMembers == {"LOW", "MODERATE", "HIGH", "CRITICAL"}

\* The fallback's actions, for a level the function has classified.
FallbackActions(soc_target, backup_reserve, threat_level, threat_types) ==
    <<Set("battery", Update(Item("soc_percent", JNum(soc_target)),
                            Item("backup_reserve_percent", JNum(backup_reserve))))>>
    \o (IF "heat_wave" \in Range(threat_types)
        THEN <<Set("thermostat",
                   Update(Item("temperature_f",
                               JNum(IF threat_level \in {"high", "critical"}
                                    THEN 70 ELSE 72)),
                          Item("mode", "cool")))>>
        ELSE IF "grid_strain" \in Range(threat_types)
        THEN <<Set("grid", Item("connection_status", "backup_ready"))>>
        ELSE IF "power_outage" \in Range(threat_types)
        THEN <<Set("thermostat", Update(Item("temperature_f", JNum(70)),
                                        Item("mode", "cool")))>>
        ELSE IF "energy_shortage" \in Range(threat_types)
        THEN <<Set("grid", Update(Item("sell_energy_kwh", JNum(3)),
                                  Item("rate_usd_per_kwh", JNum(100))))>>
        ELSE <<>>)
\* The first statement that names ThreatLevel (line 814) looks the name up in
\* the module's globals; the elif of line 818 looks up the member MEDIUM.
_generate_fallback_action(threat_analysis) ==
    LET threat_level == threat_analysis.overall_threat_level
        threat_types == threat_analysis.threat_types
    IN IF "ThreatLevel" \notin ModuleGlobals THEN Raise("NameError")
       ELSE IF threat_level \in {"high", "critical"}
       THEN IF "ThreatType" \notin ModuleGlobals THEN Raise("NameError")
            ELSE Return(FallbackActions(100, IF threat_level = "high" THEN 40 ELSE 50,
                                        threat_level, threat_types))
       ELSE IF "MEDIUM" \notin ThreatLevelMembers THEN Raise("AttributeError")
       ELSE IF "ThreatType" \notin ModuleGlobals THEN Raise("NameError")
       ELSE IF threat_level = "moderate"
       THEN Return(FallbackActions(85, 30, threat_level, threat_types))
       ELSE Return(FallbackActions(75, 20, threat_level, threat_types))

\* What the language model does when it is asked: there is none, it answers
\* with a list of actions, with an empty list, with text that holds no JSON,
\* or the call raises.
LLMSituations == {"none", "actions", "empty", "unparsable", "raises"}
LLMActions == <<Set("battery", Update(Item("soc_percent", JNum(90)),
                                      Item("backup_reserve_percent", JNum(30))))>>
\* try ... except: the handler's outcome replaces a raised one.
Except(outcome, handler) == IF outcome.error = None THEN outcome ELSE handler
generate_intelligent_actions(llm, threat_analysis) ==
    LET fallback == _generate_fallback_action(threat_analysis)
    IN CASE llm = "none" -> fallback
         [] llm = "actions" -> Return(LLMActions)
         \* the inner handler takes JSONDecodeError, ValueError and KeyError
         \* only, so what the fallback raises reaches the outer handler
         [] llm = "empty" -> Except(fallback, fallback)
         [] llm = "unparsable" -> Except(Except(fallback, fallback), fallback)
         [] llm = "raises" -> fallback

\* A call of generate_intelligent_actions on its own, on the assessment and
\* the language model it is pending for.
Asked(llm, threat_analysis) ==
    [done |-> FALSE, of |-> threat_analysis, llm |-> llm,
     outcome |-> Return(<<>>)]
generate_intelligent ==
    /\ ~generation.done
    /\ generation' = [generation EXCEPT !.done = TRUE,
                         !.outcome = generate_intelligent_actions(generation.llm,
                                                                  generation.of)]
    /\ UNCHANGED <<threat_result, pipeline_result, orchestrator_homeowners>>
    /\ UNCHANGED <<coordVars, homeVars>>
InitIntelligent ==
    /\ CoordinatorInit(MaxWarnings) /\ HomeInit
    /\ ~simulate_mode /\ initial_state = DefaultState
    /\ orchestrator_homeowners = {}
    /\ threat_result = NoThreatResult
    /\ pipeline_result = NoPipelineResult
    /\ generation \in {Asked(llm, a) : llm \in LLMSituations, a \in Assessments}
NextIntelligent == generate_intelligent
SpecIntelligent == InitIntelligent /\ [][NextIntelligent]_vars

\* C23 generate_intelligent_actions returns at least one action, and never
\* raises, for every threat analysis when there is no language model, when it
\* answers with an empty list, when its answer cannot be parsed and when the
\* call raises.
AtLeastOneAction ==
    (generation.done /\ generation.llm \in {"none", "empty", "unparsable", "raises"}) =>
        /\ generation.outcome.error = None
        /\ Len(generation.outcome.value) >= 1

\* C24 The steps of a follow-up timer.  A timer that finds its record pending
\* and unprocessed marks it processed before the resolution call is placed;
\* a resolution call it placed has its id in resolution_call_ids when the
\* record is deleted; a timer that finds the record missing or processed
\* places no call and changes nothing.
TimerFired(t) == t \in tasks /\ t.pc = "sleeping" /\ t \notin tasks'
TimerReturned(t) == t \in tasks /\ t.pc = "calling" /\ t \notin tasks'
RecordUnprocessed(call_id) ==
    /\ call_id \in DOMAIN pending_follow_ups
    /\ ~pending_follow_ups[call_id].processed
RecordDeleted(call_id) ==
    call_id \in DOMAIN pending_follow_ups /\ call_id \notin DOMAIN pending_follow_ups'
TimerStepOrdering ==
    [][\A t \in tasks :
         \* found pending and unprocessed: marked, and deleted only with the
         \* (simulated) call's id recorded
         /\ (TimerFired(t) /\ RecordUnprocessed(t.call_id)) =>
               /\ t.call_id \in DOMAIN pending_follow_ups' =>
                      pending_follow_ups'[t.call_id].processed
               /\ RecordDeleted(t.call_id) => SimId(now) \in resolution_call_ids'
               /\ (resolutionLog' # resolutionLog \/ issued' # issued) =>
                      RecordDeleted(t.call_id)
         \* the provider's answer arrives for a record marked before
         /\ TimerReturned(t) =>
               /\ t.call_id \in DOMAIN pending_follow_ups
               /\ pending_follow_ups[t.call_id].processed
               /\ RecordDeleted(t.call_id)
               /\ provider_calls' # provider_calls =>
                      ProviderId(provider_calls') \in resolution_call_ids'
         \* found missing or processed
         /\ (TimerFired(t) /\ ~RecordUnprocessed(t.call_id)) =>
               UNCHANGED <<pending_follow_ups, warning_call_ids,
                           resolution_call_ids, registered_homeowners, heatwaves,
                           provider_calls, issued, resolutionLog, attempts>>]_vars
\* A follow-up placed its resolution call with the real provider and deleted
\* its record.
TimerStepOrderingWitness ==
    /\ ~simulate_mode
    /\ \E c \in DOMAIN attempts :
          /\ attempts[c] > 0
          /\ c \notin DOMAIN pending_follow_ups
    /\ resolution_call_ids # {}
    /\ [to |-> Phone, via |-> "process_follow_up_call"] \in resolutionLog

\* The coordinator with its event loop: time passes, a background task whose
\* sleep is over is resumed, and a request to the provider is answered.
FollowUpsRun ==
    /\ WF_vars(SleepUntilDue)
    /\ WF_vars(\E t \in tasks : process_follow_up_call(t))
    /\ WF_vars(\E t \in tasks, created \in BOOLEAN :
                   send_resolution_call_returns(t, created))
SpecScheduled == Init /\ [][Next]_vars /\ FollowUpsRun

\* C25 A follow-up queued before a reset of the system never produces a
\* resolution call after the reset: once a record is pending while a
\* homeowner is registered, and the homeowners are then cleared by the reset,
\* no follow-up places a resolution call from then on.
FollowUpQueuedWhileRegistered ==
    /\ Len(registered_homeowners) > 0
    /\ \E c \in DOMAIN pending_follow_ups : ~pending_follow_ups[c].processed
    /\ \A entry \in resolutionLog : entry.via # "process_follow_up_call"
HomeownersCleared == registered_homeowners = <<>>
NoFollowUpResolution ==
    \A entry \in resolutionLog : entry.via # "process_follow_up_call"
NoResolutionAfterReset ==
    [](FollowUpQueuedWhileRegistered =>
          [](HomeownersCleared => []NoFollowUpResolution))

\* C26 For an assessment of grid strain alone, below the high level, whose
\* grid demand is above 70000 and at most 75000, the generator's output holds
\* the battery action 90 / 30, the grid action with mode monitoring and a
\* grid action selling 3 kWh at 0.95; for a demand above 75000 it holds no
\* sell action.
GridStrainAlone ==
    /\ generation.done
    /\ generation.of.threat_types = <<"grid_strain">>
    /\ generation.of.overall_threat_level \in {"low", "moderate"}
    /\ _extract_threat_parameters(generation.of).grid_demand # Nothing
Demand == _extract_threat_parameters(generation.of).grid_demand[1]
ElevatedDemandSells ==
    GridStrainAlone =>
        /\ (Demand > 70000 /\ Demand <= 75000) =>
              /\ Includes(generation.actions, "battery", BatteryParameters(90, 30))
              /\ Includes(generation.actions, "grid",
                          Item("connection_status", "monitoring"))
              /\ Includes(generation.actions, "grid", SaleParameters(3, 95))
        /\ Demand > 75000 =>
              \A i \in DOMAIN generation.actions :
                  ~Has(generation.actions[i].parameters, "sell_energy")

\* C27 An action rejected by validation has no side effect: no device
\* property, no financial field and no last_updated stamp changes, also when
\* other parameters of the same action are valid (a battery action with
\* soc 50 and backup reserve 150, a grid action with a valid sale and an
\* invalid connection status).
RejectedExamples ==
    {Set("battery", BatteryParameters(50, 150)),
     Set("grid", Update(SaleParameters(3, 95), Item("connection_status", "backup_ready")))}
RejectedFirst ==
    /\ home_result'.kind = "raised"
    /\ home_result'.error = "HomeStateValidationError"
    /\ home_result'.failed_at = 1
RejectionHasNoEffect ==
    [][/\ \A action \in RejectedExamples :
             process_request(<<action>>) =>
                 /\ RejectedFirst
                 /\ current_state' = current_state
                 /\ state_history' = state_history
       \* whichever request the step processed
       /\ RejectedFirst =>
             /\ current_state'.devices = current_state.devices
             /\ current_state'.financials = current_state.financials
             /\ current_state'.last_updated = current_state.last_updated]_vars
\* An action was rejected by validation in a home that earlier requests had
\* written to and sold energy from.
RejectionHasNoEffectWitness ==
    /\ home_result.kind = "raised"
    /\ home_result.error = "HomeStateValidationError"
    /\ home_result.failed_at = 1 /\ home_result.n = 1
    /\ "battery" \in current_state.last_updated
    /\ current_state.financials.total_energy_sold_kwh = Float(3)

\* C28 Every action list the generator produces is accepted in full by
\* process_request: on a default and on a provisioned home the loop runs
\* every action of the list and the request returns success (so the grid
\* modes backup_ready, conservation, monitoring, normal, outage_prep and
\* emergency pass validation).
GeneratedListAccepted ==
    generation.done =>
        \A home \in {DefaultState, ProvisionedState} :
            \A run \in {RunActions(home, generation.actions, 1)} :
                /\ run.kind = "returned" /\ run.success
                /\ run.executed = Len(generation.actions)

\* C29 The webhook answers "processed" only if it has inserted a follow-up
\* record into pending_follow_ups and scheduled its timer: right after a
\* delivery answered "processed", the record of the delivered call id is
\* pending and a timer for it exists (also when the event carried no
\* customer number).
ProcessedMeansQueued ==
    (last.kind = "delivery" /\ last.status = "processed") =>
        /\ last.queuedId # NoneId
        /\ last.queuedId \in DOMAIN pending_follow_ups
        /\ \E t \in tasks : t.call_id = last.queuedId /\ t.pc = "sleeping"

\* C30 In every reachable state no call id is both in warning_call_ids and a
\* key of pending_follow_ups.
TrackedOrPending ==
    warning_call_ids \cap DOMAIN pending_follow_ups = {}

====
